---- MODULE Spec2Model ----
(***************************************************************************)
(* A model of the entity-component-system of src/ecs.h (struct             *)
(* object::ecs with its EntityManager, ComponentManager, ComponentArray    *)
(* and SystemManager) and of the serialization layer under it.             *)
(*                                                                         *)
(* Conventions.                                                            *)
(*  - A byte stream (std::vector<uint8_t>) is a sequence of numbers in     *)
(*    0..255; the byte the source addresses as stream[i] is stream[i+1].   *)
(*  - A value of a trivially copyable type is the sequence of its          *)
(*    sizeof(T) bytes; a std::vector<T> or a std::string is the sequence   *)
(*    of its elements.                                                     *)
(*  - An unsigned number (size_t, uint32_t) is kept as an integer that     *)
(*    stands for its residue modulo 2^w: -1 is the all-ones sentinel       *)
(*    (size_t)-1, sums and differences are exact, and comparisons go       *)
(*    through ULess, which orders the residues.                            *)
(*  - An access outside a container, through a null pointer, or a          *)
(*    pop_back on an empty vector is undefined behaviour: the operation    *)
(*    that executes one sets ub and the engine takes no further step.      *)
(***************************************************************************)
EXTENDS Integers, Sequences, FiniteSets, TLC

(***************************************************************************)
(* Bounds of the model.                                                    *)
(***************************************************************************)
\* createEntity is called at most this many times in one behaviour
MaxCreates == 3
\* at most this many facade calls are made in one behaviour
MaxOps == 5
\* bytes in front of the encoded value in the round-trip specification
MaxPad == 2
\* strings and sequences of the round trip have at most this many elements
MaxLen == 2
\* createSystemFunction is called at most this many times in one behaviour
MaxKinds == 2
\* a requirement set given to bitmapMatches names at most this many types
MaxReq == 3
\* at most this many component types are registered after the engine is built
MaxLate == 2

(***************************************************************************)
(* Program constants.                                                      *)
(***************************************************************************)
SizeOfSizeT == 8
SizeOfBool == 1
SizeOfInt == 4
SizeOfChar == 1
SizeOfVector == 24
\* functionIndex is a uint8_t: the number of values a kind id can take
KindIdCount == 256
\* the value of ecs::error after a successful getError
NoError == 0
DoubleInsert == 1
Absent == 2
UnknownFunctionKind == 5
InvalidEntity == 6

\* (size_t)-1 and (entity)-1
Sentinel == 0 - 1

\* sizes at or above Huge are not told apart: no stream of the model is as long
Huge == 256 * 256 * 256

(***************************************************************************)
(* Unsigned arithmetic and raw bytes.                                      *)
(***************************************************************************)
\* a < b for two unsigned numbers
ULess(a, b) ==
    IF (a < 0) = (b < 0) THEN a < b ELSE b < 0

Zeros(n) == [i \in 1..n |-> 0]

\* the n bytes at stream[i] .. stream[i+n-1] exist
InRange(stream, i, n) ==
    /\ i >= 0
    /\ n >= 0
    /\ i + n <= Len(stream)

Bytes(stream, i, n) == SubSeq(stream, i + 1, i + n)

\* std::memcpy(&stream[i], bytes, Len(bytes))
Put(stream, i, bytes) ==
    [k \in 1..Len(stream) |->
        IF k > i /\ k <= i + Len(bytes) THEN bytes[k - i] ELSE stream[k]]

\* std::vector<uint8_t>::resize
Resize(stream, n) ==
    [k \in 1..n |-> IF k <= Len(stream) THEN stream[k] ELSE 0]

\* the little-endian bytes of a size_t
SizeBytes(n) ==
    <<n % 256, (n \div 256) % 256, (n \div 65536) % 256,
      IF n < 0 THEN 255 ELSE 0, IF n < 0 THEN 255 ELSE 0,
      IF n < 0 THEN 255 ELSE 0, IF n < 0 THEN 255 ELSE 0,
      IF n < 0 THEN 255 ELSE 0>>

\* the size_t read from eight bytes
SizeOf(b) ==
    IF \A k \in 4..8 : b[k] = 0
    THEN b[1] + 256 * b[2] + 65536 * b[3]
    ELSE Huge

\* object::deserialize<size_t>(stream, i), for i in range
ReadSize(stream, i) == SizeOf(Bytes(stream, i, SizeOfSizeT))

IntBytes(n) == <<n % 256, (n \div 256) % 256, 0, 0>>

BoolBytes(b) == <<IF b THEN 1 ELSE 0>>

(***************************************************************************)
(* The value types of the model.  A type is a record: kind "triv" with     *)
(* its sizeof, kind "str" (std::string), kind "vec" (std::vector<T>) with  *)
(* its element type, or kind "none": a non-trivially-copyable type with    *)
(* no Serialization specialization.                                        *)
(***************************************************************************)
TBool == [kind |-> "triv", size |-> SizeOfBool]
TInt == [kind |-> "triv", size |-> SizeOfInt]
TChar == [kind |-> "triv", size |-> SizeOfChar]
TStr == [kind |-> "str"]
TVec(elem) == [kind |-> "vec", elem |-> elem]
TNone == [kind |-> "none"]
Trivial(ty) == ty.kind = "triv"

\* T() for the value types of the model
DefaultValue(ty) == IF Trivial(ty) THEN Zeros(ty.size) ELSE <<>>

\* the element type of a std::string (char) or of a std::vector<T> (T)
ElemType(ty) == IF ty.kind = "str" THEN TChar ELSE ty.elem

(***************************************************************************)
(* object::length and Serialization<T>::length.                            *)
(***************************************************************************)
RECURSIVE Length(_, _), SerLength(_, _), SumLength(_, _, _)

\* Serialization<std::string>::length, Serialization<std::vector<T>>::length
\* and, for a type without specialization, defaultLengthSetter
SerLength(ty, v) ==
    CASE ty.kind = "str" -> Len(v) * SizeOfChar + SizeOfSizeT
      [] ty.kind = "vec" -> SumLength(ty.elem, v, 1) + SizeOfSizeT
      [] OTHER -> 0

SumLength(elem, v, i) ==
    IF i > Len(v) THEN 0 ELSE Length(elem, v[i]) + SumLength(elem, v, i + 1)

\* object::length without the sizeof(size_t) of the length prefix
LengthNoPrefix(ty, v) ==
    IF Trivial(ty) THEN ty.size ELSE SerLength(ty, v)

\* object::length
Length(ty, v) ==
    IF Trivial(ty) THEN ty.size ELSE SerLength(ty, v) + SizeOfSizeT

(***************************************************************************)
(* object::serialize and Serialization<T>::serialize.  The result is       *)
(* [ok, s]: the stream written, ok false when a byte outside the stream    *)
(* was addressed.                                                          *)
(***************************************************************************)
RECURSIVE Serialize(_, _, _, _, _), SerSerialize(_, _, _, _), SerElems(_, _, _, _, _)

\* the loop of Serialization<T>::serialize over the elements from the i-th on
SerElems(ty, v, i, stream, pos) ==
    IF i > Len(v) THEN [ok |-> TRUE, s |-> stream]
    ELSE LET len == Length(ElemType(ty), v[i])
             r == Serialize(ElemType(ty), v[i], stream, pos, len)
         IN IF r.ok THEN SerElems(ty, v, i + 1, r.s, pos + len) ELSE r

SerSerialize(ty, v, stream, index) ==
    IF ty.kind = "none" THEN [ok |-> TRUE, s |-> stream]
    ELSE IF ~InRange(stream, index, SizeOfSizeT) THEN [ok |-> FALSE, s |-> stream]
    ELSE SerElems(ty, v, 1, Put(stream, index, SizeBytes(Len(v))), index + SizeOfSizeT)

Serialize(ty, v, stream, index, length) ==
    IF Trivial(ty)
    THEN IF InRange(stream, index, length) /\ length <= Len(v)
         THEN [ok |-> TRUE, s |-> Put(stream, index, SubSeq(v, 1, length))]
         ELSE [ok |-> FALSE, s |-> stream]
    ELSE IF ~InRange(stream, index, SizeOfSizeT) THEN [ok |-> FALSE, s |-> stream]
    ELSE SerSerialize(ty, v, Put(stream, index, SizeBytes(length)), index + SizeOfSizeT)

(***************************************************************************)
(* object::deserialize and Serialization<T>::deserialize.  The result is   *)
(* [ok, v]: the value read, ok false when a byte outside the stream was    *)
(* addressed.                                                              *)
(***************************************************************************)
RECURSIVE Deserialize(_, _, _), SerDeserialize(_, _, _), DesElems(_, _, _, _, _, _)

\* the loop of Serialization<T>::deserialize over the elements from the i-th on
DesElems(ty, stream, pos, size, i, acc) ==
    IF i > size THEN [ok |-> TRUE, v |-> acc]
    ELSE LET r == Deserialize(ElemType(ty), stream, pos)
         IN IF r.ok
            THEN DesElems(ty, stream, pos + Length(ElemType(ty), r.v), size, i + 1,
                          Append(acc, r.v))
            ELSE r

SerDeserialize(ty, stream, index) ==
    IF ty.kind = "none" THEN [ok |-> TRUE, v |-> DefaultValue(ty)]
    ELSE IF ~InRange(stream, index, SizeOfSizeT) THEN [ok |-> FALSE, v |-> <<>>]
    ELSE IF ReadSize(stream, index) >= Huge THEN [ok |-> FALSE, v |-> <<>>]
    ELSE DesElems(ty, stream, index + SizeOfSizeT, ReadSize(stream, index), 1, <<>>)

Deserialize(ty, stream, index) ==
    IF Trivial(ty)
    THEN IF InRange(stream, index, ty.size)
         THEN [ok |-> TRUE, v |-> Bytes(stream, index, ty.size)]
         ELSE [ok |-> FALSE, v |-> <<>>]
    ELSE SerDeserialize(ty, stream, index + SizeOfSizeT)

(***************************************************************************)
(* object::resize.  The result is [ok, s, offset].                         *)
(***************************************************************************)
\* the memcpy of object::resize: the bytes after the old record, copied from the
\* copy of the stream to their place after the new record
ResizeCopy(dst, copy, index, length, original) ==
    LET count == Len(copy) - index - original
    IN IF /\ InRange(copy, index + original, count)
          /\ InRange(dst, index + length, count)
       THEN [ok |-> TRUE, s |-> Put(dst, index + length, Bytes(copy, index + original, count))]
       ELSE [ok |-> FALSE, s |-> dst]

ResizeStream(ty, length, stream, index) ==
    IF Trivial(ty) THEN [ok |-> TRUE, s |-> stream, offset |-> 0]
    ELSE IF ~InRange(stream, index, SizeOfSizeT)
    THEN [ok |-> FALSE, s |-> stream, offset |-> 0]
    ELSE LET original == ReadSize(stream, index)
             offset == length - original
         IN IF original >= Huge THEN [ok |-> FALSE, s |-> stream, offset |-> 0]
            ELSE IF original < length
            THEN LET r == ResizeCopy(Resize(stream, Len(stream) + offset), stream,
                                     index, length, original)
                 IN [ok |-> r.ok, s |-> r.s, offset |-> offset]
            ELSE IF original > length
            THEN LET r == ResizeCopy(stream, stream, index, length, original)
                 IN [ok |-> r.ok,
                     s |-> IF r.ok THEN Resize(r.s, Len(stream) + offset) ELSE stream,
                     offset |-> offset]
            ELSE [ok |-> TRUE, s |-> stream, offset |-> 0]

(***************************************************************************)
(* ecs::ComponentArray: one pool, the byte vector m_components.  Byte 0    *)
(* tells whether the pool holds a non-trivially-copyable type; the         *)
(* sizeof(T) bytes after it are the default component.                     *)
(***************************************************************************)
\* sizeof(T), what ComponentManager::newId stores in spaceBuffer
SizeOfType(ty) == IF Trivial(ty) THEN ty.size ELSE SizeOfVector

\* ComponentArray::ComponentArray(size, complexity)
NewComponentArray(size, complexity) ==
    Put(Zeros(SizeOfBool + size), 0, BoolBytes(~complexity))

\* ComponentArray::complex
CA_complex(a) == a[1] # 0

\* ComponentArray::overwrite that takes the stored length prefix for the length
\* of the whole record
CA_overwritePayload(a, componentSize, index) ==
    IF CA_complex(a) /\ ~InRange(a, index, SizeOfSizeT)
    THEN [ok |-> FALSE, a |-> a, offset |-> 0]
    ELSE LET offset == IF CA_complex(a) THEN ReadSize(a, index) ELSE componentSize
             count == Len(a) - (index + offset)
         IN IF /\ offset < Huge
               /\ InRange(a, index, count)
               /\ InRange(a, index + offset, count)
            THEN [ok |-> TRUE,
                  a |-> Resize(Put(a, index, Bytes(a, index + offset, count)),
                               Len(a) - offset),
                  offset |-> offset]
            ELSE [ok |-> FALSE, a |-> a, offset |-> 0]

\* ComponentArray::overwrite: [ok, a, offset]
CA_overwrite(a, componentSize, index) ==
    IF CA_complex(a) /\ ~InRange(a, index, SizeOfSizeT)
    THEN [ok |-> FALSE, a |-> a, offset |-> 0]
    ELSE LET offset == IF CA_complex(a)
                       THEN ReadSize(a, index) + SizeOfSizeT
                       ELSE componentSize
             count == Len(a) - (index + offset)
         IN IF /\ offset < Huge
               /\ InRange(a, index, count)
               /\ InRange(a, index + offset, count)
            THEN [ok |-> TRUE,
                  a |-> Resize(Put(a, index, Bytes(a, index + offset, count)),
                               Len(a) - offset),
                  offset |-> offset]
            ELSE [ok |-> FALSE, a |-> a, offset |-> 0]

\* ComponentArray::addComponent, both overloads: [ok, a, index, err, ret]
CA_addComponent(ty, a, index, component) ==
    IF index # Sentinel
    THEN [ok |-> TRUE, a |-> a, index |-> index, err |-> DoubleInsert,
          ret |-> IF Trivial(ty) /\ InRange(a, index, ty.size)
                  THEN Bytes(a, index, ty.size)
                  ELSE DefaultValue(ty)]
    ELSE LET arraySize == Len(a)
             length == IF Trivial(ty) THEN ty.size ELSE SerLength(ty, component)
             grown == Resize(a, IF Trivial(ty) THEN arraySize + ty.size
                                ELSE arraySize + SizeOfSizeT + length)
             w == Serialize(ty, component, grown, arraySize, length)
             r == Deserialize(ty, w.s, arraySize)
         IN [ok |-> w.ok /\ r.ok, a |-> w.s, index |-> arraySize, err |-> NoError,
             ret |-> r.v]

\* ComponentArray::getDefaultComponent
CA_getDefaultComponent(ty, a) == Bytes(a, SizeOfBool, ty.size)

\* ComponentArray::getComponent, both overloads: [ok, v, err]
CA_getComponent(ty, a, index) ==
    IF index = Sentinel /\ Trivial(ty)
    THEN [ok |-> TRUE, v |-> CA_getDefaultComponent(ty, a), err |-> Absent]
    ELSE LET r == Deserialize(ty, a, index)
         IN [ok |-> r.ok, v |-> r.v,
             err |-> IF index = Sentinel THEN Absent ELSE NoError]

\* ComponentArray::setComponent: [ok, a, offset, err]
CA_setComponent(ty, a, index, update) ==
    IF index = Sentinel
    THEN [ok |-> TRUE, a |-> a, offset |-> 0, err |-> Absent]
    ELSE LET length == Length(ty, update)
             r == ResizeStream(ty, length, a, index)
             w == Serialize(ty, update, r.s, index, length)
         IN IF r.ok
            THEN [ok |-> w.ok, a |-> w.s, offset |-> r.offset, err |-> NoError]
            ELSE [ok |-> FALSE, a |-> a, offset |-> 0, err |-> NoError]

(***************************************************************************)
(* printSerializationError: how many times a call prints.  Only            *)
(* defaultLengthSetter, defaultSerialization and defaultDeserialization    *)
(* print, once per call.                                                   *)
(***************************************************************************)
\* one call of Serialization<T>::length, ::serialize or ::deserialize
SerDiagnostics(ty) == IF ty.kind = "none" THEN 1 ELSE 0

\* ComponentArray::addComponent: Serialization<T>::length, then object::serialize
\* and object::deserialize, unless the index is taken
CA_addComponentDiagnostics(ty, index) ==
    IF index # Sentinel \/ Trivial(ty) THEN 0 ELSE 3 * SerDiagnostics(ty)

\* ComponentArray::getComponent: object::deserialize, whatever the index
CA_getComponentDiagnostics(ty, index) ==
    IF Trivial(ty) THEN 0 ELSE SerDiagnostics(ty)

\* ComponentArray::setComponent: object::length and object::serialize, unless the
\* index is the sentinel
CA_setComponentDiagnostics(ty, index) ==
    IF index = Sentinel \/ Trivial(ty) THEN 0 ELSE 2 * SerDiagnostics(ty)

(***************************************************************************)
(* The program the engine is compiled into: its component types (with      *)
(* the ids ComponentType<T>::id gives them) and its system types (with     *)
(* the ids SystemType<T>::id starts from and the requirements each         *)
(* createSystem<T, Args...> names).                                        *)
(***************************************************************************)
\* ComponentManager::idCount: bool (the active component), int, std::vector<int>
ComponentIdCount == 3
BoolId == 0
IntId == 1
VecId == 2
CompIds == 0..(ComponentIdCount - 1)
UserCompIds == {IntId, VecId}

\* the id a further component type gets: a struct with a std::string member and
\* no Serialization specialization
RawId == ComponentIdCount

CompType(id) ==
    CASE id = BoolId -> TBool
      [] id = IntId -> TInt
      [] id = RawId -> TNone
      [] OTHER -> TVec(TInt)

\* ComponentManager::spaceBuffer and complexBuffer, as newId fills them
spaceBuffer(id) == SizeOfType(CompType(id))
complexBuffer(id) == Trivial(CompType(id))

\* SystemManager::idCount
SystemIdCount == 3
SysTypes == {"SA", "SB", "SC"}
Slots == 0..(SystemIdCount - 1)

\* the value SystemType<T>::id is initialized with
InitialSystemId(t) ==
    CASE t = "SA" -> 0
      [] t = "SB" -> 1
      [] OTHER -> 2

\* Args... of createSystem<T, Args...>
Requirements(t) ==
    CASE t = "SA" -> <<IntId>>
      [] t = "SB" -> <<IntId, VecId>>
      [] OTHER -> <<VecId>>

\* the priorities createSystem is called with
Priorities == {0, 1, 2}
\* the default argument of ecs::createSystem
DefaultPriority == 0
\* what the float of a SystemSupplement that was never assigned may hold
GarbagePriorities == {0 - 1, 1, 3}

\* the values addComponent and setComponent are called with
CompValues(id) ==
    CASE id = BoolId -> {BoolBytes(TRUE), BoolBytes(FALSE)}
      [] id = IntId -> {IntBytes(1), IntBytes(2)}
      [] OTHER -> {<<IntBytes(1)>>, <<IntBytes(2)>>, <<IntBytes(1), IntBytes(2)>>}

\* the entity ids the facade is called with
EntityIds == 0..(MaxCreates - 1)

(***************************************************************************)
(* State.                                                                  *)
(***************************************************************************)
VARIABLES
    \* ecs::EntityManager
    m_entityCount, m_removedEntities, m_componentBitmaps,
    \* ecs::ComponentManager
    m_componentArrays, m_indexMaps,
    \* ecs::SystemManager
    m_stores, m_supplements,
    \* SystemType<T>::id, SystemManager::functionIndex, ecs::error
    systemTypeId, functionIndex, error,
    \* an operation executed undefined behaviour
    ub,
    \* the system& each createSystem<T> returned, as the slot it refers to
    sysRef,
    \* the createSystem calls so far, in order: the type and the priority of each
    createdSystems,
    \* the callbacks the last run invoked, in order
    runLog,
    \* the last facade call: its name, its entity and type, and whether the entity
    \* was live and held the type before it; the value it was called with; what it
    \* returned
    last, arg, ret,
    \* per entity and component type, the value addComponent or setComponent
    \* was last called with
    written,
    \* the numbers of createEntity calls and of facade calls so far
    creates, ops,
    \* the round trip of one value through a stream
    codec

engineVars ==
    <<m_entityCount, m_removedEntities, m_componentBitmaps, m_componentArrays,
      m_indexMaps, m_stores, m_supplements, systemTypeId, functionIndex, error,
      ub, sysRef, createdSystems, runLog, last, arg, ret, written, creates,
      ops>>

vars == <<engineVars, codec>>

\* 0-based access to a std::vector
At(v, i) == v[i + 1]
Has(v, i) == i >= 0 /\ i < Len(v)
SetAt(v, i, x) == [v EXCEPT ![i + 1] = x]
Back(v) == v[Len(v)]
PopBack(v) == SubSeq(v, 1, Len(v) - 1)

(***************************************************************************)
(* ecs::ComponentManager: m_componentArrays and m_indexMaps, one pool and  *)
(* one entity-to-offset map per component type.  The operators take and    *)
(* return the pool a and the map m of the type they work on.               *)
(***************************************************************************)
\* ComponentManager::addEntity
CM_addEntity(maps) == [i \in DOMAIN maps |-> Append(maps[i], Sentinel)]

\* ComponentManager::remove: [ok, a, m]
CM_remove(a, m, id, index, e) ==
    LET r == CA_overwrite(a, spaceBuffer(id), index)
    IN IF r.ok /\ Has(m, e)
       THEN [ok |-> TRUE, a |-> r.a,
             m |-> [i \in DOMAIN m |->
                      IF i = e + 1 THEN Sentinel
                      ELSE IF ULess(index, m[i]) /\ m[i] # Sentinel
                           THEN m[i] - r.offset
                           ELSE m[i]]]
       ELSE [ok |-> FALSE, a |-> a, m |-> m]

\* the body of the loop of ComponentManager::removeEntity for one type: [ok, a, m]
CM_removeEntityOf(a, m, id, e) ==
    IF ~Has(m, e) THEN [ok |-> FALSE, a |-> a, m |-> m]
    ELSE IF At(m, e) = Sentinel THEN [ok |-> TRUE, a |-> a, m |-> m]
    ELSE CM_remove(a, m, id, At(m, e), e)

\* ComponentManager::removeEntity: [ok, arrays, maps]
CM_removeEntity(arrays, maps, e) ==
    [ok |-> \A id \in CompIds :
                CM_removeEntityOf(At(arrays, id), At(maps, id), id, e).ok,
     arrays |-> [i \in DOMAIN arrays |->
                    CM_removeEntityOf(arrays[i], maps[i], i - 1, e).a],
     maps |-> [i \in DOMAIN maps |->
                    CM_removeEntityOf(arrays[i], maps[i], i - 1, e).m]]

\* ComponentManager::addComponent: [ok, a, m, err, ret]
CM_addComponent(a, m, id, e, component) ==
    IF ~Has(m, e)
    THEN [ok |-> FALSE, a |-> a, m |-> m, err |-> NoError, ret |-> <<>>]
    ELSE LET r == CA_addComponent(CompType(id), a, At(m, e), component)
         IN [ok |-> r.ok, a |-> r.a, m |-> SetAt(m, e, r.index), err |-> r.err,
             ret |-> r.ret]

\* ComponentManager::getComponent: [ok, v, err]
CM_getComponent(a, m, id, e) ==
    IF e = Sentinel
    THEN [ok |-> TRUE,
          v |-> IF Trivial(CompType(id))
                THEN CA_getDefaultComponent(CompType(id), a)
                ELSE DefaultValue(CompType(id)),
          err |-> NoError]
    ELSE IF ~Has(m, e) THEN [ok |-> FALSE, v |-> <<>>, err |-> NoError]
    ELSE CA_getComponent(CompType(id), a, At(m, e))

\* ComponentManager::containsComponent: [ok, v]
CM_containsComponent(m, e) ==
    IF Has(m, e) THEN [ok |-> TRUE, v |-> At(m, e) # Sentinel]
    ELSE [ok |-> FALSE, v |-> FALSE]

\* ComponentManager::removeComponent: [ok, a, m, err, ret]
CM_removeComponent(a, m, id, e) ==
    LET g == CM_getComponent(a, m, id, e)
        r == CM_remove(a, m, id, At(m, e), e)
    IN IF g.ok /\ Has(m, e) /\ r.ok
       THEN [ok |-> TRUE, a |-> r.a, m |-> r.m, err |-> g.err, ret |-> g.v]
       ELSE [ok |-> FALSE, a |-> a, m |-> m, err |-> g.err, ret |-> <<>>]

\* ComponentManager::setComponent: [ok, a, m, err]
CM_setComponent(a, m, id, e, update) ==
    IF ~Has(m, e) THEN [ok |-> FALSE, a |-> a, m |-> m, err |-> NoError]
    ELSE LET index == At(m, e)
             r == CA_setComponent(CompType(id), a, index, update)
         IN [ok |-> r.ok, a |-> r.a,
             m |-> [i \in DOMAIN m |->
                      IF ULess(index, m[i]) THEN m[i] + r.offset ELSE m[i]],
             err |-> r.err]

\* ComponentManager::share: [ok, a, m, err]
CM_share(a, m, id, e, share) ==
    IF ~Has(m, e) THEN [ok |-> FALSE, a |-> a, m |-> m, err |-> NoError]
    ELSE LET r == IF At(m, e) # Sentinel
                  THEN CM_removeComponent(a, m, id, e)
                  ELSE [ok |-> TRUE, a |-> a, m |-> m, err |-> NoError, ret |-> <<>>]
         IN IF r.ok /\ Has(r.m, share)
            THEN [ok |-> TRUE, a |-> r.a, m |-> SetAt(r.m, e, At(r.m, share)),
                  err |-> r.err]
            ELSE [ok |-> FALSE, a |-> a, m |-> m, err |-> r.err]

(***************************************************************************)
(* ecs::SystemSupplement and ecs::SystemManager.  A supplement is the      *)
(* record [priority, index, requirement, indexMap, entities], index being  *)
(* the system type whose SystemType<T>::id the pointer addresses, or       *)
(* "NULL"; a store (ecs::system) is [initialized, instance, functions].    *)
(***************************************************************************)
\* the default insertion of SystemSupplement::SystemSupplement, called by
\* SystemSupplement::insert: [ok, s]
SS_insert(s, e) ==
    IF Has(s.indexMap, e)
    THEN [ok |-> TRUE,
          s |-> [s EXCEPT !.indexMap = SetAt(s.indexMap, e, Len(s.entities)),
                          !.entities = Append(s.entities, e)]]
    ELSE [ok |-> FALSE, s |-> s]

\* SystemSupplement::extract that leaves the position of the entity extracted
\* as it was
SS_extractKeepPosition(s, e) ==
    IF /\ Len(s.entities) > 0
       /\ Has(s.indexMap, e)
       /\ Has(s.entities, At(s.indexMap, e))
       /\ Has(s.indexMap, Back(s.entities))
    THEN LET lastE == Back(s.entities)
             moved == SetAt(s.entities, At(s.indexMap, e), lastE)
             map1 == SetAt(s.indexMap, lastE, At(s.indexMap, e))
         IN [ok |-> TRUE,
             s |-> [s EXCEPT !.entities = PopBack(moved), !.indexMap = map1]]
    ELSE [ok |-> FALSE, s |-> s]

\* SystemSupplement::extract, and the same statements in
\* SystemManager::componentRemoved: [ok, s]
SS_extract(s, e) ==
    IF /\ Len(s.entities) > 0
       /\ Has(s.indexMap, e)
       /\ Has(s.entities, At(s.indexMap, e))
       /\ Has(s.indexMap, Back(s.entities))
    THEN LET lastE == Back(s.entities)
             moved == SetAt(s.entities, At(s.indexMap, e), lastE)
             map1 == SetAt(s.indexMap, lastE, At(s.indexMap, e))
         IN [ok |-> TRUE,
             s |-> [s EXCEPT !.entities = PopBack(moved),
                             !.indexMap = SetAt(map1, e, Sentinel)]]
    ELSE [ok |-> FALSE, s |-> s]

\* SystemManager::bitmapMatches(index, bitmap), on the supplement at index
bitmapMatches(s, bitmap) ==
    /\ s.requirement # <<>>
    /\ \A k \in DOMAIN s.requirement : At(bitmap, s.requirement[k])

\* SystemManager::bitmapMatches(index, bitmap, bit)
bitmapMatchesBit(s, bitmap, bit) ==
    /\ s.requirement # <<>>
    /\ \A k \in DOMAIN s.requirement : At(bitmap, s.requirement[k])
    /\ \E k \in DOMAIN s.requirement : s.requirement[k] = bit

\* the loop of SystemManager::bitmapMatches(index, bitmap) from the k-th
\* requirement on: it returns false at the first requirement the bitmap lacks
RECURSIVE MatchesFrom(_, _, _)
MatchesFrom(requirement, bitmap, k) ==
    IF k > Len(requirement) THEN TRUE
    ELSE IF ~At(bitmap, requirement[k]) THEN FALSE
    ELSE MatchesFrom(requirement, bitmap, k + 1)

\* SystemManager::bitmapMatches(index, bitmap), statement by statement
bitmapMatchesLoop(requirement, bitmap) ==
    IF requirement = <<>> THEN FALSE ELSE MatchesFrom(requirement, bitmap, 1)

\* the loop of SystemManager::bitmapMatches(index, bitmap, bit) from the k-th
\* requirement on, valid telling whether the bit was met
RECURSIVE MatchesBitFrom(_, _, _, _, _)
MatchesBitFrom(requirement, bitmap, bit, k, valid) ==
    IF k > Len(requirement) THEN valid
    ELSE IF ~At(bitmap, requirement[k]) THEN FALSE
    ELSE MatchesBitFrom(requirement, bitmap, bit, k + 1,
                        valid \/ requirement[k] = bit)

\* bitmapMatches(index, bitmap, bit) that takes the bit for met from the start
bitmapMatchesBitAny(requirement, bitmap, bit) ==
    IF requirement = <<>> THEN FALSE
    ELSE MatchesBitFrom(requirement, bitmap, bit, 1, TRUE)

\* SystemManager::bitmapMatches(index, bitmap, bit), statement by statement
bitmapMatchesBitLoop(requirement, bitmap, bit) ==
    IF requirement = <<>> THEN FALSE
    ELSE MatchesBitFrom(requirement, bitmap, bit, 1, FALSE)

\* SystemManager::addEntity
SM_addEntity(supps) ==
    [i \in DOMAIN supps |->
        [supps[i] EXCEPT !.indexMap = Append(supps[i].indexMap, Sentinel)]]

\* SystemManager::extractEntity: [ok, supps]
SM_extractEntity(supps, e, bitmap) ==
    [ok |-> \A i \in DOMAIN supps :
                bitmapMatches(supps[i], bitmap) => SS_extract(supps[i], e).ok,
     supps |-> [i \in DOMAIN supps |->
                    IF bitmapMatches(supps[i], bitmap)
                    THEN SS_extract(supps[i], e).s
                    ELSE supps[i]]]

\* SystemManager::componentRemoved: [ok, supps]
SM_componentRemoved(supps, e, bit, bitmap) ==
    [ok |-> \A i \in DOMAIN supps :
                bitmapMatchesBit(supps[i], bitmap, bit) => SS_extract(supps[i], e).ok,
     supps |-> [i \in DOMAIN supps |->
                    IF bitmapMatchesBit(supps[i], bitmap, bit)
                    THEN SS_extract(supps[i], e).s
                    ELSE supps[i]]]

\* the loop of ecs::setActive over SystemManager::insertEntity: [ok, supps]
SM_insertMatching(supps, e, bitmap) ==
    [ok |-> \A i \in DOMAIN supps :
                bitmapMatches(supps[i], bitmap) => SS_insert(supps[i], e).ok,
     supps |-> [i \in DOMAIN supps |->
                    IF bitmapMatches(supps[i], bitmap)
                    THEN SS_insert(supps[i], e).s
                    ELSE supps[i]]]

\* the do-while of SystemManager::createSystem from the state (index, total) on:
\* [ok, total]
RECURSIVE SearchLoop(_, _, _, _, _)
SearchLoop(supps, priority, id, index, total) ==
    IF ~Has(supps, total) THEN [ok |-> FALSE, total |-> total]
    ELSE LET buffer == index
             half == index \div 2
             next == IF At(supps, total).priority > priority
                     THEN total - (half + (buffer % 2))
                     ELSE total + (half + (buffer % 2))
                          + (IF half = 0 THEN id % 2 ELSE 0)
         IN IF half # 0
            THEN SearchLoop(supps, priority, id, half, next)
            ELSE [ok |-> TRUE, total |-> next]

\* the search of SystemManager::createSystem for the slot of the new system
SearchSlot(supps, priority, id) ==
    IF id > 0
    THEN SearchLoop(supps, priority, id, id \div 2, id \div 2)
    ELSE [ok |-> TRUE, total |-> id \div 2]

\* SystemManager::createSystem with system::initialize:
\* [ok, stores, supps, sysId, total]
SM_createSystem(stores, supps, sysId, t, priority) ==
    LET id == sysId[t]
        store == At(stores, id)
        supplement == At(supps, id)
        f == SearchSlot(supps, priority, id)
        total == f.total
        \* the slots moveTo fills: total+1 .. id
        moved == {j \in Slots : total < j /\ j <= id}
    IN IF /\ f.ok
          /\ Has(supps, total)
          /\ \A j \in moved : At(supps, j - 1).index # "NULL"
       THEN [ok |-> TRUE,
             stores |-> [i \in DOMAIN stores |->
                            IF i - 1 \in moved THEN stores[i - 1]
                            ELSE IF i - 1 = total
                            THEN [store EXCEPT !.initialized = TRUE, !.instance = t]
                            ELSE stores[i]],
             supps |-> [i \in DOMAIN supps |->
                            IF i - 1 \in moved THEN supps[i - 1]
                            ELSE IF i - 1 = total
                            THEN [supplement EXCEPT !.priority = priority, !.index = t]
                            ELSE supps[i]],
             sysId |-> [u \in SysTypes |->
                            IF u = t THEN total
                            ELSE IF \E j \in moved : At(supps, j - 1).index = u
                            THEN CHOOSE j \in moved : At(supps, j - 1).index = u
                            ELSE sysId[u]],
             total |-> total]
       ELSE [ok |-> FALSE, stores |-> stores, supps |-> supps, sysId |-> sysId,
             total |-> total]

\* SystemManager::addRequirement for the requirements from the k-th on
RECURSIVE AddRequirements(_, _, _)
AddRequirements(requirement, args, k) ==
    IF k > Len(args) THEN requirement
    ELSE AddRequirements(
            IF \E i \in DOMAIN requirement : requirement[i] = args[k]
            THEN requirement
            ELSE Append(requirement, args[k]),
            args, k + 1)

\* the loop of ecs::createSystem over the entities from i on: [ok, s]
RECURSIVE InsertActive(_, _, _, _)
InsertActive(s, bitmaps, i, totalEntities) ==
    IF i >= totalEntities THEN [ok |-> TRUE, s |-> s]
    ELSE IF ~Has(bitmaps, i) THEN [ok |-> FALSE, s |-> s]
    ELSE IF Back(At(bitmaps, i)) /\ bitmapMatches(s, At(bitmaps, i))
    THEN LET r == SS_insert(s, i)
         IN IF r.ok THEN InsertActive(r.s, bitmaps, i + 1, totalEntities) ELSE r
    ELSE InsertActive(s, bitmaps, i + 1, totalEntities)

\* SystemManager::createSystemFunction that gives a slot only to the systems
\* already created
SM_createSystemFunctionCreated(stores) ==
    [i \in DOMAIN stores |->
        IF stores[i].initialized
        THEN [stores[i] EXCEPT !.functions = Append(stores[i].functions, "noop")]
        ELSE stores[i]]

\* SystemManager::createSystemFunction, the stores after it
SM_createSystemFunction(stores) ==
    [i \in DOMAIN stores |->
        [stores[i] EXCEPT !.functions = Append(stores[i].functions, "noop")]]

\* SystemManager::runFunction: [ok, log], the callbacks invoked, in order, each
\* with the instance of the store it was invoked on
RECURSIVE SM_runFunction(_, _, _, _)
SM_runFunction(stores, index, i, log) ==
    IF i > Len(stores) THEN [ok |-> TRUE, log |-> log]
    ELSE IF ~stores[i].initialized THEN SM_runFunction(stores, index, i + 1, log)
    ELSE IF ~Has(stores[i].functions, index) THEN [ok |-> FALSE, log |-> log]
    ELSE SM_runFunction(stores, index, i + 1,
            Append(log, [fn |-> At(stores[i].functions, index),
                         instance |-> stores[i].instance, slot |-> i - 1]))

(***************************************************************************)
(* ecs::EntityManager: m_entityCount, m_removedEntities and                *)
(* m_componentBitmaps.                                                     *)
(***************************************************************************)
\* EntityManager::totalEntityCount
EM_totalEntityCount(count, removed) == count + Len(removed)

\* EntityManager::contains
EM_contains(count, removed, e) == ULess(e, EM_totalEntityCount(count, removed))

\* std::vector<bool>(ComponentManager::idCount + 1)
EmptyBitmap == [i \in 1..(ComponentIdCount + 1) |-> FALSE]

\* EntityManager::createEntity that recycles the id removed first, not last
EM_createEntityOldest(count, removed, bitmaps) ==
    LET entity == IF removed # <<>> THEN Head(removed) ELSE count
        removed1 == IF removed # <<>> THEN Tail(removed) ELSE removed
        bitmaps1 == IF removed # <<>> THEN bitmaps ELSE Append(bitmaps, EmptyBitmap)
    IN IF Has(bitmaps1, entity)
       THEN [ok |-> TRUE, count |-> count + 1, removed |-> removed1,
             bitmaps |-> SetAt(bitmaps1, entity,
                               SetAt(At(bitmaps1, entity), ComponentIdCount, TRUE)),
             entity |-> entity]
       ELSE [ok |-> FALSE, count |-> count, removed |-> removed, bitmaps |-> bitmaps,
             entity |-> entity]

\* EntityManager::createEntity: [ok, count, removed, bitmaps, entity]
EM_createEntity(count, removed, bitmaps) ==
    LET entity == IF removed # <<>> THEN Back(removed) ELSE count
        removed1 == IF removed # <<>> THEN PopBack(removed) ELSE removed
        bitmaps1 == IF removed # <<>> THEN bitmaps ELSE Append(bitmaps, EmptyBitmap)
    IN IF Has(bitmaps1, entity)
       THEN [ok |-> TRUE, count |-> count + 1, removed |-> removed1,
             bitmaps |-> SetAt(bitmaps1, entity,
                               SetAt(At(bitmaps1, entity), ComponentIdCount, TRUE)),
             entity |-> entity]
       ELSE [ok |-> FALSE, count |-> count, removed |-> removed, bitmaps |-> bitmaps,
             entity |-> entity]

\* EntityManager::removeEntity: [ok, count, removed, bitmaps]
EM_removeEntity(count, removed, bitmaps, e) ==
    IF Has(bitmaps, e)
    THEN [ok |-> TRUE, count |-> count - 1, removed |-> Append(removed, e),
          bitmaps |-> SetAt(bitmaps, e, EmptyBitmap)]
    ELSE [ok |-> FALSE, count |-> count, removed |-> removed, bitmaps |-> bitmaps]

(***************************************************************************)
(* object::ecs, the facade.  Each operator takes the engine E, a record    *)
(* of the engine's variables, and returns [eng, ret]: the engine after     *)
(* the call and what the call returned.  A call that executes undefined    *)
(* behaviour returns the engine with ub set.  What a call returns is a     *)
(* sequence: the bytes or the elements of a component, the one number or   *)
(* boolean in a sequence of length one, nothing as the empty sequence.     *)
(***************************************************************************)
Engine ==
    [m_entityCount |-> m_entityCount, m_removedEntities |-> m_removedEntities,
     m_componentBitmaps |-> m_componentBitmaps,
     m_componentArrays |-> m_componentArrays, m_indexMaps |-> m_indexMaps,
     m_stores |-> m_stores, m_supplements |-> m_supplements,
     systemTypeId |-> systemTypeId, functionIndex |-> functionIndex,
     error |-> error, ub |-> ub]

Undefined(E) == [eng |-> [E EXCEPT !.ub = TRUE], ret |-> <<>>]

\* m_entityManager.contains(e)
Contains(E, e) == EM_contains(E.m_entityCount, E.m_removedEntities, e)

\* the error after a manager call that reported err
Raised(E, err) == IF err # NoError THEN err ELSE E.error

\* ecs::addComponentConfiguration: [ok, bitmaps, supps]
addComponentConfiguration(bitmaps, supps, e, id) ==
    IF ~Has(bitmaps, e) THEN [ok |-> FALSE, bitmaps |-> bitmaps, supps |-> supps]
    ELSE LET bitmap == SetAt(At(bitmaps, e), id, TRUE)
         IN [ok |-> \A i \in DOMAIN supps :
                        bitmapMatchesBit(supps[i], bitmap, id)
                            => SS_insert(supps[i], e).ok,
             bitmaps |-> SetAt(bitmaps, e, bitmap),
             supps |-> [i \in DOMAIN supps |->
                            IF bitmapMatchesBit(supps[i], bitmap, id)
                            THEN SS_insert(supps[i], e).s
                            ELSE supps[i]]]

\* ecs::addComponent<T>(e, component), both overloads
F_addComponent(E, e, id, component) ==
    IF ~Contains(E, e)
    THEN [eng |-> [E EXCEPT !.error = InvalidEntity],
          ret |-> CM_getComponent(At(E.m_componentArrays, id),
                                  At(E.m_indexMaps, id), id, Sentinel).v]
    ELSE LET r == CM_addComponent(At(E.m_componentArrays, id),
                                  At(E.m_indexMaps, id), id, e, component)
             c == addComponentConfiguration(E.m_componentBitmaps,
                                            E.m_supplements, e, id)
         IN IF r.ok /\ c.ok
            THEN [eng |-> [E EXCEPT
                      !.m_componentArrays = SetAt(@, id, r.a),
                      !.m_indexMaps = SetAt(@, id, r.m),
                      !.m_componentBitmaps = c.bitmaps,
                      !.m_supplements = c.supps,
                      !.error = Raised(E, r.err)],
                  ret |-> r.ret]
            ELSE Undefined(E)

\* ecs::shareComponent<T>(e, share)
F_shareComponent(E, e, share, id) ==
    IF ~Contains(E, e)
    THEN [eng |-> [E EXCEPT !.error = InvalidEntity], ret |-> <<>>]
    ELSE LET r == CM_share(At(E.m_componentArrays, id), At(E.m_indexMaps, id),
                           id, e, share)
             c == addComponentConfiguration(E.m_componentBitmaps,
                                            E.m_supplements, e, id)
         IN IF r.ok /\ c.ok
            THEN [eng |-> [E EXCEPT
                      !.m_componentArrays = SetAt(@, id, r.a),
                      !.m_indexMaps = SetAt(@, id, r.m),
                      !.m_componentBitmaps = c.bitmaps,
                      !.m_supplements = c.supps,
                      !.error = Raised(E, r.err)],
                  ret |-> <<>>]
            ELSE Undefined(E)

\* ecs::createEntity
F_createEntity(E) ==
    LET c == EM_createEntity(E.m_entityCount, E.m_removedEntities,
                             E.m_componentBitmaps)
        E1 == [E EXCEPT !.m_supplements = SM_addEntity(@),
                        !.m_indexMaps = CM_addEntity(@),
                        !.m_entityCount = c.count,
                        !.m_removedEntities = c.removed,
                        !.m_componentBitmaps = c.bitmaps]
        r == F_addComponent(E1, c.entity, BoolId, BoolBytes(TRUE))
    IN IF c.ok THEN [eng |-> r.eng, ret |-> <<c.entity>>] ELSE Undefined(E)

\* ecs::removeEntity
F_removeEntity(E, e) ==
    IF ~Contains(E, e)
    THEN [eng |-> [E EXCEPT !.error = InvalidEntity], ret |-> <<>>]
    ELSE LET c == CM_removeEntity(E.m_componentArrays, E.m_indexMaps, e)
             x == SM_extractEntity(E.m_supplements, e, At(E.m_componentBitmaps, e))
             r == EM_removeEntity(E.m_entityCount, E.m_removedEntities,
                                  E.m_componentBitmaps, e)
         IN IF Has(E.m_componentBitmaps, e) /\ c.ok /\ x.ok /\ r.ok
            THEN [eng |-> [E EXCEPT
                      !.m_componentArrays = c.arrays,
                      !.m_indexMaps = c.maps,
                      !.m_supplements = x.supps,
                      !.m_entityCount = r.count,
                      !.m_removedEntities = r.removed,
                      !.m_componentBitmaps = r.bitmaps],
                  ret |-> <<>>]
            ELSE Undefined(E)

\* ecs::getComponent<T>(e), both overloads
F_getComponent(E, e, id) ==
    LET valid == Contains(E, e)
        r == CM_getComponent(At(E.m_componentArrays, id), At(E.m_indexMaps, id),
                             id, IF valid THEN e ELSE Sentinel)
        E1 == IF valid THEN E ELSE [E EXCEPT !.error = InvalidEntity]
    IN IF r.ok
       THEN [eng |-> [E1 EXCEPT !.error = Raised(E1, r.err)], ret |-> r.v]
       ELSE Undefined(E)

\* where the bool& of getComponent<bool>(e) points into the pool of bool
ActiveOffset(E, e) ==
    IF At(At(E.m_indexMaps, BoolId), e) = Sentinel
    THEN SizeOfBool
    ELSE At(At(E.m_indexMaps, BoolId), e)

\* ecs::setActive
F_setActive(E, e, newState) ==
    IF ~Contains(E, e)
    THEN [eng |-> [E EXCEPT !.error = InvalidEntity], ret |-> <<>>]
    ELSE LET g == F_getComponent(E, e, BoolId)
             E1 == g.eng
             pool == At(E.m_componentArrays, BoolId)
             bitmap == At(E.m_componentBitmaps, e)
             s == IF newState
                  THEN SM_insertMatching(E.m_supplements, e, bitmap)
                  ELSE SM_extractEntity(E.m_supplements, e, bitmap)
         IN IF E1.ub THEN Undefined(E)
            ELSE IF (g.ret # BoolBytes(FALSE)) = newState
            THEN [eng |-> E1, ret |-> <<>>]
            ELSE IF /\ InRange(pool, ActiveOffset(E, e), SizeOfBool)
                    /\ Has(E.m_componentBitmaps, e)
                    /\ s.ok
            THEN [eng |-> [E1 EXCEPT
                      !.m_componentArrays =
                          SetAt(@, BoolId,
                                Put(pool, ActiveOffset(E, e), BoolBytes(newState))),
                      !.m_supplements = s.supps],
                  ret |-> <<>>]
            ELSE Undefined(E)

\* ecs::active<T>(e)
F_activeOf(E, e, id) ==
    IF ~Contains(E, e)
    THEN [eng |-> [E EXCEPT !.error = InvalidEntity], ret |-> <<FALSE>>]
    ELSE IF Has(E.m_componentBitmaps, e)
    THEN [eng |-> E, ret |-> <<At(At(E.m_componentBitmaps, e), id)>>]
    ELSE Undefined(E)

\* ecs::setActive<T>(e, newState)
F_setActiveOf(E, e, id, newState) ==
    IF ~Contains(E, e)
    THEN [eng |-> [E EXCEPT !.error = InvalidEntity], ret |-> <<>>]
    ELSE IF ~Has(E.m_componentBitmaps, e) THEN Undefined(E)
    ELSE LET c == CM_containsComponent(At(E.m_indexMaps, id), e)
             \* the bitmap after "if(!bitmap[id]) bitmap[id] = true"
             bitmap == SetAt(At(E.m_componentBitmaps, e), id, TRUE)
             s == IF newState
                  THEN [ok |-> \A i \in DOMAIN E.m_supplements :
                                  bitmapMatchesBit(E.m_supplements[i], bitmap, id)
                                      => SS_insert(E.m_supplements[i], e).ok,
                        supps |-> [i \in DOMAIN E.m_supplements |->
                                      IF bitmapMatchesBit(E.m_supplements[i], bitmap, id)
                                      THEN SS_insert(E.m_supplements[i], e).s
                                      ELSE E.m_supplements[i]]]
                  ELSE SM_componentRemoved(E.m_supplements, e, id, bitmap)
         IN IF At(At(E.m_componentBitmaps, e), id) = newState
            THEN [eng |-> E, ret |-> <<>>]
            ELSE IF ~c.ok THEN Undefined(E)
            ELSE IF ~c.v THEN [eng |-> E, ret |-> <<>>]
            ELSE IF s.ok
            THEN [eng |-> [E EXCEPT
                      !.m_supplements = s.supps,
                      \* "if(bitmap[id]) bitmap[id] = false"
                      !.m_componentBitmaps = SetAt(@, e, SetAt(bitmap, id, FALSE))],
                  ret |-> <<>>]
            ELSE Undefined(E)

\* ecs::setComponent<T>(e, update)
F_setComponent(E, e, id, update) ==
    LET valid == Contains(E, e)
        E1 == IF valid THEN E ELSE [E EXCEPT !.error = InvalidEntity]
        r == CM_setComponent(At(E.m_componentArrays, id), At(E.m_indexMaps, id),
                             id, IF valid THEN e ELSE Sentinel, update)
    IN IF r.ok
       THEN [eng |-> [E1 EXCEPT
                 !.m_componentArrays = SetAt(@, id, r.a),
                 !.m_indexMaps = SetAt(@, id, r.m),
                 !.error = Raised(E1, r.err)],
             ret |-> <<>>]
       ELSE Undefined(E)

\* ecs::containsComponent<T>(e)
F_containsComponent(E, e, id) ==
    LET r == CM_containsComponent(At(E.m_indexMaps, id), e)
    IN IF r.ok THEN [eng |-> E, ret |-> <<r.v>>] ELSE Undefined(E)

\* ecs::removeComponent<T>(e)
F_removeComponent(E, e, id) ==
    IF ~Contains(E, e)
    THEN [eng |-> [E EXCEPT !.error = InvalidEntity],
          ret |-> DefaultValue(CompType(id))]
    ELSE LET x == SM_componentRemoved(E.m_supplements, e, id,
                                      At(E.m_componentBitmaps, e))
             r == CM_removeComponent(At(E.m_componentArrays, id),
                                     At(E.m_indexMaps, id), id, e)
         IN IF Has(E.m_componentBitmaps, e) /\ x.ok /\ r.ok
            THEN [eng |-> [E EXCEPT
                      !.m_supplements = x.supps,
                      !.m_componentBitmaps =
                          SetAt(@, e, SetAt(At(@, e), id, FALSE)),
                      !.m_componentArrays = SetAt(@, id, r.a),
                      !.m_indexMaps = SetAt(@, id, r.m),
                      !.error = Raised(E, r.err)],
                  ret |-> r.ret]
            ELSE Undefined(E)

\* ecs::createSystem<T, Args...>(instance, priority); returns the slot the
\* system& refers to
F_createSystem(E, t, priority) ==
    LET r == SM_createSystem(E.m_stores, E.m_supplements, E.systemTypeId, t, priority)
        id == r.sysId[t]
        required == [At(r.supps, id) EXCEPT
                        !.requirement = AddRequirements(@, Requirements(t), 1)]
        i == InsertActive(required, E.m_componentBitmaps, 0,
                          EM_totalEntityCount(E.m_entityCount, E.m_removedEntities))
    IN IF r.ok /\ i.ok
       THEN [eng |-> [E EXCEPT !.m_stores = r.stores,
                               !.m_supplements = SetAt(r.supps, id, i.s),
                               !.systemTypeId = r.sysId],
             ret |-> <<r.total>>]
       ELSE Undefined(E)

\* ecs::createSystemFunction
F_createSystemFunction(E) ==
    [eng |-> [E EXCEPT !.m_stores = SM_createSystemFunction(@),
                       !.functionIndex = (@ + 1) % 256],
     ret |-> <<E.functionIndex>>]

\* system::setFunction on the system& that refers to the given slot
F_setFunction(E, slot, index, function) ==
    IF Has(At(E.m_stores, slot).functions, index)
    THEN [eng |-> [E EXCEPT !.m_stores =
                      SetAt(@, slot, [At(@, slot) EXCEPT
                                         !.functions = SetAt(@, index, function)])],
          ret |-> <<>>]
    ELSE Undefined(E)

\* ecs::run that also accepts the kind one past the last one declared
F_runOnePast(E, index) ==
    IF ~(index <= E.functionIndex)
    THEN [eng |-> [E EXCEPT !.error = UnknownFunctionKind], ret |-> <<>>]
    ELSE LET r == SM_runFunction(E.m_stores, index, 1, <<>>)
         IN IF r.ok THEN [eng |-> E, ret |-> r.log] ELSE Undefined(E)

\* ecs::run; returns the callbacks invoked
F_run(E, index) ==
    IF ~(index < E.functionIndex)
    THEN [eng |-> [E EXCEPT !.error = UnknownFunctionKind], ret |-> <<>>]
    ELSE LET r == SM_runFunction(E.m_stores, index, 1, <<>>)
         IN IF r.ok THEN [eng |-> E, ret |-> r.log] ELSE Undefined(E)

\* ecs::getError that does not reset the code
F_getErrorKeep(E) == [eng |-> E, ret |-> <<E.error>>]

\* ecs::getError
F_getError(E) == [eng |-> [E EXCEPT !.error = NoError], ret |-> <<E.error>>]

(***************************************************************************)
(* The initial state: the engine after ecs::ecs(), in a program whose      *)
(* component and system types are all registered (the ids are initialized  *)
(* before main).                                                           *)
(***************************************************************************)
\* system::system(functionSize)
NewSystem(functionSize) ==
    [initialized |-> FALSE, instance |-> "", functions |-> [i \in 1..functionSize |-> "noop"]]

\* SystemSupplement::SystemSupplement(numberOfEntities); the constructor leaves
\* priority unassigned
NewSupplement(numberOfEntities, garbage) ==
    [priority |-> garbage, index |-> "NULL", requirement |-> <<>>,
     indexMap |-> Zeros(numberOfEntities), entities |-> <<>>]

NoValue == [set |-> FALSE, v |-> <<>>]
Value(v) == [set |-> TRUE, v |-> v]

NoCall == [op |-> "none", e |-> 0, id |-> 0, live |-> FALSE, held |-> FALSE]

\* no round trip is under way
NoCodec == [tn |-> "none", v |-> <<>>, pad |-> 0, stream |-> <<>>, index |-> 0,
            back |-> <<>>, ok |-> TRUE, phase |-> "idle"]

EngineInit ==
    /\ m_entityCount = 0
    /\ m_removedEntities = <<>>
    /\ m_componentBitmaps = <<>>
    /\ m_componentArrays =
          [i \in 1..ComponentIdCount |->
              NewComponentArray(spaceBuffer(i - 1), complexBuffer(i - 1))]
    /\ m_indexMaps = [i \in 1..ComponentIdCount |-> Zeros(0)]
    /\ m_stores = [i \in 1..SystemIdCount |-> NewSystem(0)]
    /\ \E garbage \in GarbagePriorities :
          m_supplements = [i \in 1..SystemIdCount |-> NewSupplement(0, garbage)]
    /\ systemTypeId = [t \in SysTypes |-> InitialSystemId(t)]
    /\ functionIndex = 0
    /\ error = NoError
    /\ ub = FALSE
    /\ sysRef = [t \in SysTypes |-> Sentinel]
    /\ createdSystems = <<>>
    /\ runLog = <<>>
    /\ last = NoCall
    /\ arg = <<>>
    /\ ret = <<>>
    /\ written = [e \in EntityIds |-> [id \in CompIds |-> NoValue]]
    /\ creates = 0
    /\ ops = 0

Init == EngineInit /\ codec = NoCodec

\* the kinds already declared when the behaviours about the range of kind ids
\* start
FirstKind == KindIdCount - MaxKinds

\* the stores after n calls of createSystemFunction: each call appends one
\* no-op callback to every store
Declared(stores, n) ==
    [i \in DOMAIN stores |->
        [stores[i] EXCEPT !.functions = @ \o [j \in 1..n |-> "noop"]]]

\* the engine on which createSystemFunction was called FirstKind times and
\* nothing else
InitKinds ==
    /\ m_entityCount = 0
    /\ m_removedEntities = <<>>
    /\ m_componentBitmaps = <<>>
    /\ m_componentArrays =
          [i \in 1..ComponentIdCount |->
              NewComponentArray(spaceBuffer(i - 1), complexBuffer(i - 1))]
    /\ m_indexMaps = [i \in 1..ComponentIdCount |-> Zeros(0)]
    /\ m_stores = Declared([i \in 1..SystemIdCount |-> NewSystem(0)], FirstKind)
    /\ \E garbage \in GarbagePriorities :
          m_supplements = [i \in 1..SystemIdCount |-> NewSupplement(0, garbage)]
    /\ systemTypeId = [t \in SysTypes |-> InitialSystemId(t)]
    /\ functionIndex = FirstKind % KindIdCount
    /\ error = NoError
    /\ ub = FALSE
    /\ sysRef = [t \in SysTypes |-> Sentinel]
    /\ createdSystems = <<>>
    /\ runLog = <<>>
    /\ last = NoCall
    /\ arg = <<>>
    /\ ret = <<>>
    /\ written = [e \in EntityIds |-> [id \in CompIds |-> NoValue]]
    /\ creates = 0
    /\ ops = 0
    /\ codec = NoCodec

\* the engine's variables become those of E
Commit(E) ==
    /\ m_entityCount' = E.m_entityCount
    /\ m_removedEntities' = E.m_removedEntities
    /\ m_componentBitmaps' = E.m_componentBitmaps
    /\ m_componentArrays' = E.m_componentArrays
    /\ m_indexMaps' = E.m_indexMaps
    /\ m_stores' = E.m_stores
    /\ m_supplements' = E.m_supplements
    /\ systemTypeId' = E.systemTypeId
    /\ functionIndex' = E.functionIndex
    /\ error' = E.error
    /\ ub' = E.ub

\* the entity is live, and holds a component of a type, as far as the calls
\* made so far tell
Live(e) == e \in EntityIds /\ written[e][BoolId].set
Holds(e, id) == Live(e) /\ written[e][id].set

\* a facade call that counts against MaxOps and is recorded in last, arg and ret
Call(r, op, e, id, value) ==
    /\ ~ub
    /\ ops < MaxOps
    /\ ops' = ops + 1
    /\ Commit(r.eng)
    /\ last' = [op |-> op, e |-> e, id |-> id, live |-> Live(e),
                held |-> Holds(e, id)]
    /\ arg' = value
    /\ ret' = r.ret

(***************************************************************************)
(* The calls of the facade.                                                *)
(***************************************************************************)
CreateEntity ==
    LET r == F_createEntity(Engine)
    IN /\ creates < MaxCreates
       /\ Call(r, "createEntity", 0, BoolId, <<>>)
       /\ creates' = creates + 1
       /\ written' = IF r.eng.ub THEN written
                     ELSE [written EXCEPT ![r.ret[1]] =
                              [id \in CompIds |->
                                  IF id = BoolId THEN Value(BoolBytes(TRUE))
                                  ELSE NoValue]]
       /\ UNCHANGED <<sysRef, createdSystems, runLog, codec>>

RemoveEntity(e) ==
    /\ Call(F_removeEntity(Engine, e), "removeEntity", e, BoolId, <<>>)
    /\ written' = IF Live(e)
                  THEN [written EXCEPT ![e] = [id \in CompIds |-> NoValue]]
                  ELSE written
    /\ UNCHANGED <<sysRef, createdSystems, runLog, creates, codec>>

SetActive(e, newState) ==
    /\ Call(F_setActive(Engine, e, newState), "setActive", e, BoolId,
            BoolBytes(newState))
    /\ written' = IF Live(e)
                  THEN [written EXCEPT ![e][BoolId] = Value(BoolBytes(newState))]
                  ELSE written
    /\ UNCHANGED <<sysRef, createdSystems, runLog, creates, codec>>

\* setActive<T>(e, newState); last.id is the type
SetActiveOf(e, id, newState) ==
    /\ Call(F_setActiveOf(Engine, e, id, newState), "setActive<T>", e, id,
            BoolBytes(newState))
    /\ UNCHANGED <<sysRef, createdSystems, runLog, written, creates, codec>>

AddComponent(e, id, component) ==
    /\ Call(F_addComponent(Engine, e, id, component), "addComponent", e, id, component)
    /\ written' = IF Live(e) /\ ~written[e][id].set
                  THEN [written EXCEPT ![e][id] = Value(component)]
                  ELSE written
    /\ UNCHANGED <<sysRef, createdSystems, runLog, creates, codec>>

SetComponent(e, id, update) ==
    /\ Call(F_setComponent(Engine, e, id, update), "setComponent", e, id, update)
    /\ written' = IF Holds(e, id)
                  THEN [written EXCEPT ![e][id] = Value(update)]
                  ELSE written
    /\ UNCHANGED <<sysRef, createdSystems, runLog, creates, codec>>

RemoveComponent(e, id) ==
    /\ Call(F_removeComponent(Engine, e, id), "removeComponent", e, id, <<>>)
    /\ written' = IF Holds(e, id)
                  THEN [written EXCEPT ![e][id] = NoValue]
                  ELSE written
    /\ UNCHANGED <<sysRef, createdSystems, runLog, creates, codec>>

\* e is given the record of share; last.id is the type and arg the entity share
ShareComponent(e, share, id) ==
    /\ Call(F_shareComponent(Engine, e, share, id), "shareComponent", e, id,
            <<share>>)
    /\ written' = IF Live(e)
                  THEN [written EXCEPT ![e][id] =
                           IF Holds(share, id) THEN written[share][id] ELSE NoValue]
                  ELSE written
    /\ UNCHANGED <<sysRef, createdSystems, runLog, creates, codec>>

\* the calls that only read components leave last and ops alone
GetComponent(e, id) ==
    /\ ~ub
    /\ Commit(F_getComponent(Engine, e, id).eng)
    /\ UNCHANGED <<sysRef, createdSystems, runLog, last, arg, ret, written, creates,
                 ops, codec>>

ContainsComponent(e, id) ==
    /\ ~ub
    /\ Commit(F_containsComponent(Engine, e, id).eng)
    /\ UNCHANGED <<sysRef, createdSystems, runLog, last, arg, ret, written, creates,
                 ops, codec>>

GetError ==
    /\ Call(F_getError(Engine), "getError", 0, BoolId, <<>>)
    /\ UNCHANGED <<sysRef, createdSystems, runLog, written, creates, codec>>

CreateSystem(t, priority) ==
    LET r == F_createSystem(Engine, t, priority)
    IN /\ Call(r, "createSystem", 0, BoolId, <<>>)
       /\ sysRef' = IF r.eng.ub THEN sysRef ELSE [sysRef EXCEPT ![t] = r.ret[1]]
       /\ createdSystems' = Append(createdSystems,
                                   [type |-> t, priority |-> priority])
       /\ UNCHANGED <<runLog, written, creates, codec>>

CreateSystemFunction ==
    /\ functionIndex < MaxKinds
    /\ Call(F_createSystemFunction(Engine), "createSystemFunction", 0, BoolId, <<>>)
    /\ UNCHANGED <<sysRef, createdSystems, runLog, written, creates, codec>>

\* the kinds declared so far: every store has one slot for each
KindsDeclared == Len(m_stores[1].functions)

\* createSystemFunction, until one more kind is declared than there are ids
DeclareKind ==
    /\ KindsDeclared <= KindIdCount
    /\ Call(F_createSystemFunction(Engine), "createSystemFunction", 0, BoolId, <<>>)
    /\ UNCHANGED <<sysRef, createdSystems, runLog, written, creates, codec>>

\* setFunction on the system& createSystem<T> returned, with a callback named T
SetFunction(t, index) ==
    /\ sysRef[t] # Sentinel
    /\ Call(F_setFunction(Engine, sysRef[t], index, t), "setFunction", 0, BoolId, <<>>)
    /\ UNCHANGED <<sysRef, createdSystems, runLog, written, creates, codec>>

Run(index) ==
    LET r == F_run(Engine, index)
    IN /\ Call(r, "run", 0, BoolId, IntBytes(index))
       /\ runLog' = r.ret
       /\ UNCHANGED <<sysRef, createdSystems, written, creates, codec>>

\* entities, components and systems of the default priority
Next ==
    \/ CreateEntity
    \/ \E e \in EntityIds : RemoveEntity(e)
    \/ \E e \in EntityIds, b \in BOOLEAN : SetActive(e, b)
    \/ \E e \in EntityIds, id \in UserCompIds :
          \E v \in CompValues(id) : AddComponent(e, id, v)
    \/ \E e \in EntityIds, id \in UserCompIds :
          \E v \in CompValues(id) : SetComponent(e, id, v)
    \/ \E e \in EntityIds, id \in UserCompIds : RemoveComponent(e, id)
    \/ \E e \in EntityIds, id \in CompIds : GetComponent(e, id)
    \/ \E e \in EntityIds, id \in CompIds : ContainsComponent(e, id)
    \/ GetError
    \/ \E t \in SysTypes : CreateSystem(t, DefaultPriority)

Spec == Init /\ [][Next]_vars

\* systems of any priority, their callbacks and run
NextSystems ==
    \/ CreateSystemFunction
    \/ \E t \in SysTypes, p \in Priorities : CreateSystem(t, p)
    \/ \E t \in SysTypes, k \in 0..(MaxKinds - 1) : SetFunction(t, k)
    \/ \E k \in 0..MaxKinds : Run(k)

SpecSystems == Init /\ [][NextSystems]_vars

\* the kind ids a callback is set for or run with where the ids run out
EdgeKinds == {0, FirstKind, KindIdCount - 1}

\* systems, callbacks and run on an engine with nearly as many kinds as ids
NextKinds ==
    \/ DeclareKind
    \/ \E t \in SysTypes, p \in Priorities : CreateSystem(t, p)
    \/ \E t \in SysTypes, k \in EdgeKinds : SetFunction(t, k)
    \/ \E k \in EdgeKinds : Run(k)

SpecKinds == InitKinds /\ [][NextKinds]_vars

\* systems of the default priority and the four calls that create and remove
\* entities and components
NextMembership ==
    \/ CreateEntity
    \/ \E e \in EntityIds : RemoveEntity(e)
    \/ \E e \in EntityIds, id \in UserCompIds :
          \E v \in CompValues(id) : AddComponent(e, id, v)
    \/ \E e \in EntityIds, id \in UserCompIds : RemoveComponent(e, id)
    \/ \E t \in SysTypes : CreateSystem(t, DefaultPriority)

SpecMembership == Init /\ [][NextMembership]_vars

\* entities that are created and never removed, and the calls on their components
NextComponents ==
    \/ CreateEntity
    \/ \E e \in EntityIds, id \in UserCompIds :
          \E v \in CompValues(id) : AddComponent(e, id, v)
    \/ \E e \in EntityIds, id \in UserCompIds :
          \E v \in CompValues(id) : SetComponent(e, id, v)
    \/ \E e \in EntityIds, id \in UserCompIds : RemoveComponent(e, id)
    \/ \E e \in EntityIds, id \in CompIds : GetComponent(e, id)

SpecComponents == Init /\ [][NextComponents]_vars

\* the calls on entities, components and systems, each made only where it is
\* meant to be made: removeEntity on a live id, addComponent of a type the live
\* entity does not hold, removeComponent of a type it holds, createSystem for
\* a type not created yet; no entity is deactivated
NextProper ==
    \/ CreateEntity
    \/ \E e \in EntityIds : Live(e) /\ RemoveEntity(e)
    \/ \E e \in EntityIds, id \in UserCompIds :
          /\ Live(e) /\ ~Holds(e, id)
          /\ \E v \in CompValues(id) : AddComponent(e, id, v)
    \/ \E e \in EntityIds, id \in UserCompIds : Holds(e, id) /\ RemoveComponent(e, id)
    \/ \E t \in SysTypes, p \in Priorities :
          /\ \A i \in DOMAIN createdSystems : createdSystems[i].type # t
          /\ CreateSystem(t, p)

SpecProper == Init /\ [][NextProper]_vars

\* the same calls, and setActive on a live entity
NextActive ==
    \/ NextProper
    \/ \E e \in EntityIds, b \in BOOLEAN : Live(e) /\ SetActive(e, b)

SpecActive == Init /\ [][NextActive]_vars

\* addComponent, removeComponent and createSystem as in NextProper, with the
\* default priority, and shareComponent<T>(e, donor) for two distinct live
\* entities that both hold T
NextShare ==
    \/ \E e \in EntityIds, id \in UserCompIds :
          /\ Live(e) /\ ~Holds(e, id)
          /\ \E v \in CompValues(id) : AddComponent(e, id, v)
    \/ \E e \in EntityIds, id \in UserCompIds : Holds(e, id) /\ RemoveComponent(e, id)
    \/ \E t \in SysTypes :
          /\ \A i \in DOMAIN createdSystems : createdSystems[i].type # t
          /\ CreateSystem(t, DefaultPriority)
    \/ \E e \in EntityIds, share \in EntityIds, id \in UserCompIds :
          /\ e # share
          /\ Live(e) /\ Holds(e, id)
          /\ Live(share) /\ Holds(share, id)
          /\ ShareComponent(e, share, id)

\* the engine as constructed, the priorities of the slots being garbage
NewEngine(garbage) ==
    [m_entityCount |-> 0, m_removedEntities |-> <<>>,
     m_componentBitmaps |-> <<>>,
     m_componentArrays |->
         [i \in 1..ComponentIdCount |->
             NewComponentArray(spaceBuffer(i - 1), complexBuffer(i - 1))],
     m_indexMaps |-> [i \in 1..ComponentIdCount |-> Zeros(0)],
     m_stores |-> [i \in 1..SystemIdCount |-> NewSystem(0)],
     m_supplements |-> [i \in 1..SystemIdCount |-> NewSupplement(0, garbage)],
     systemTypeId |-> [t \in SysTypes |-> InitialSystemId(t)],
     functionIndex |-> 0, error |-> NoError, ub |-> FALSE]

\* the entities of the engine on which the behaviours about sharing start
FirstEntities == {0, 1}

\* the engine on which createEntity was called twice and nothing else
InitShare ==
    /\ \E garbage \in GarbagePriorities :
          \E E0 \in {F_createEntity(NewEngine(garbage)).eng} :
          \E E \in {F_createEntity(E0).eng} :
             /\ m_entityCount = E.m_entityCount
             /\ m_removedEntities = E.m_removedEntities
             /\ m_componentBitmaps = E.m_componentBitmaps
             /\ m_componentArrays = E.m_componentArrays
             /\ m_indexMaps = E.m_indexMaps
             /\ m_stores = E.m_stores
             /\ m_supplements = E.m_supplements
             /\ systemTypeId = E.systemTypeId
             /\ functionIndex = E.functionIndex
             /\ error = E.error
             /\ ub = E.ub
    /\ sysRef = [t \in SysTypes |-> Sentinel]
    /\ createdSystems = <<>>
    /\ runLog = <<>>
    /\ last = NoCall
    /\ arg = <<>>
    /\ ret = <<>>
    /\ written = [e \in EntityIds |->
                     [id \in CompIds |->
                         IF e \in FirstEntities /\ id = BoolId
                         THEN Value(BoolBytes(TRUE)) ELSE NoValue]]
    /\ creates = Cardinality(FirstEntities)
    /\ ops = 0
    /\ codec = NoCodec

SpecShare == InitShare /\ [][NextShare]_vars

\* the calls that change the engine and take entity ids, on ids of every kind:
\* live, removed and never created
NextIds ==
    \/ CreateEntity
    \/ \E e \in EntityIds : RemoveEntity(e)
    \/ \E e \in EntityIds, b \in BOOLEAN : SetActive(e, b)
    \/ \E e \in EntityIds, id \in UserCompIds :
          \E v \in CompValues(id) : AddComponent(e, id, v)
    \/ \E e \in EntityIds, id \in UserCompIds :
          \E v \in CompValues(id) : SetComponent(e, id, v)
    \/ \E e \in EntityIds, id \in UserCompIds : RemoveComponent(e, id)
    \/ \E e \in EntityIds, share \in EntityIds, id \in UserCompIds :
          ShareComponent(e, share, id)
    \/ \E t \in SysTypes : CreateSystem(t, DefaultPriority)

SpecIds == Init /\ [][NextIds]_vars

\* calls that fail in three ways (DoubleInsert, InvalidEntity and
\* UnknownFunctionKind: no function kind is declared), and getError
NextErrors ==
    \/ CreateEntity
    \/ \E e \in EntityIds : RemoveEntity(e)
    \/ \E e \in EntityIds : \E v \in CompValues(IntId) : AddComponent(e, IntId, v)
    \/ Run(0)
    \/ GetError

SpecErrors == Init /\ [][NextErrors]_vars

\* the calls that change index maps and bitmaps, with setActive<T>
NextBitmaps ==
    \/ CreateEntity
    \/ \E e \in EntityIds : RemoveEntity(e)
    \/ \E e \in EntityIds, b \in BOOLEAN : SetActive(e, b)
    \/ \E e \in EntityIds, id \in UserCompIds, b \in BOOLEAN : SetActiveOf(e, id, b)
    \/ \E e \in EntityIds, id \in UserCompIds :
          \E v \in CompValues(id) : AddComponent(e, id, v)
    \/ \E e \in EntityIds, id \in UserCompIds :
          \E v \in CompValues(id) : SetComponent(e, id, v)
    \/ \E e \in EntityIds, id \in UserCompIds : RemoveComponent(e, id)
    \/ \E e, share \in EntityIds, id \in UserCompIds : ShareComponent(e, share, id)
    \/ \E t \in SysTypes : CreateSystem(t, DefaultPriority)

SpecBitmaps == Init /\ [][NextBitmaps]_vars

(***************************************************************************)
(* The round trip of one value through a pool: ComponentArray::addComponent *)
(* encodes it behind the bytes the pool holds already, and                 *)
(* ComponentArray::getComponent decodes it from the offset addComponent    *)
(* stored.                                                                 *)
(***************************************************************************)
CodecTypes == {"int", "str", "vecint", "vecstr", "vecvec"}

CodecType(tn) ==
    CASE tn = "int" -> TInt
      [] tn = "str" -> TStr
      [] tn = "vecint" -> TVec(TInt)
      [] tn = "vecstr" -> TVec(TStr)
      [] OTHER -> TVec(TVec(TInt))

SeqsUpTo(S, n) == UNION {[1..k -> S] : k \in 0..n}

\* the values of each type the round trip is tried with
Ints == {IntBytes(0), IntBytes(513)}
Chars == {<<0>>, <<97>>}
CodecValues(tn) ==
    CASE tn = "int" -> Ints
      [] tn = "str" -> SeqsUpTo(Chars, MaxLen)
      [] tn = "vecint" -> SeqsUpTo(Ints, MaxLen)
      [] tn = "vecstr" -> SeqsUpTo(SeqsUpTo({<<97>>}, MaxLen), MaxLen)
      [] OTHER -> SeqsUpTo(SeqsUpTo(Ints, MaxLen), MaxLen)

\* a pool of the type that holds pad bytes of earlier records
PaddedPool(ty, pad) ==
    NewComponentArray(SizeOfType(ty), Trivial(ty)) \o [i \in 1..pad |-> 255]

InitCodec ==
    /\ EngineInit
    /\ \E tn \in CodecTypes, pad \in {0, MaxPad} :
          \E v \in CodecValues(tn) :
             codec = [tn |-> tn, v |-> v, pad |-> pad,
                      stream |-> PaddedPool(CodecType(tn), pad), index |-> Sentinel,
                      back |-> <<>>, ok |-> TRUE, phase |-> "start"]

Encode ==
    LET r == CA_addComponent(CodecType(codec.tn), codec.stream, codec.index, codec.v)
    IN /\ codec.phase = "start"
       /\ codec' = [codec EXCEPT !.stream = r.a, !.index = r.index, !.ok = r.ok,
                                 !.phase = "encoded"]
       /\ UNCHANGED engineVars

Decode ==
    LET r == CA_getComponent(CodecType(codec.tn), codec.stream, codec.index)
    IN /\ codec.phase = "encoded"
       /\ codec.ok
       /\ codec' = [codec EXCEPT !.back = r.v, !.ok = r.ok, !.phase = "decoded"]
       /\ UNCHANGED engineVars

NextCodec == Encode \/ Decode

SpecCodec == InitCodec /\ [][NextCodec]_vars

(***************************************************************************)
(* The pool and the index map of a component type without Serialization    *)
(* specialization, under the calls of ComponentManager.  codec holds the   *)
(* pool (stream), the index map (map), the entities the calls made         *)
(* holders (held), the last call (phase, e), what it returned (back), how  *)
(* many diagnostics it printed, whether it stayed inside the pool (ok),    *)
(* and the number of calls made (n).                                       *)
(***************************************************************************)
InitUnregistered ==
    /\ EngineInit
    /\ codec = [tn |-> "raw",
                stream |-> NewComponentArray(spaceBuffer(RawId), complexBuffer(RawId)),
                map |-> [i \in 1..MaxCreates |-> Sentinel],
                held |-> {}, phase |-> "start", e |-> 0, back |-> <<>>,
                diagnostics |-> 0, ok |-> TRUE, n |-> 0]

\* addComponent<T>(e, component); the component is a value the pool cannot
\* encode, so that it plays no part
AddRaw(e) ==
    LET r == CM_addComponent(codec.stream, codec.map, RawId, e, <<>>)
    IN /\ codec.ok /\ codec.n < MaxOps
       /\ codec' = [codec EXCEPT
             !.stream = r.a, !.map = r.m, !.ok = r.ok, !.back = r.ret,
             !.held = IF r.ok /\ r.err = NoError THEN @ \cup {e} ELSE @,
             !.diagnostics = CA_addComponentDiagnostics(CompType(RawId),
                                                        At(codec.map, e)),
             !.phase = "addComponent", !.e = e, !.n = @ + 1]
       /\ UNCHANGED engineVars

\* getComponent<T>(e)
GetRaw(e) ==
    LET r == CM_getComponent(codec.stream, codec.map, RawId, e)
    IN /\ codec.ok /\ codec.n < MaxOps
       /\ codec' = [codec EXCEPT
             !.ok = r.ok, !.back = r.v,
             !.diagnostics = CA_getComponentDiagnostics(CompType(RawId),
                                                        At(codec.map, e)),
             !.phase = "getComponent", !.e = e, !.n = @ + 1]
       /\ UNCHANGED engineVars

\* setComponent<T>(e, update)
SetRaw(e) ==
    LET r == CM_setComponent(codec.stream, codec.map, RawId, e, <<>>)
    IN /\ codec.ok /\ codec.n < MaxOps
       /\ codec' = [codec EXCEPT
             !.stream = r.a, !.map = r.m, !.ok = r.ok, !.back = <<>>,
             !.diagnostics = CA_setComponentDiagnostics(CompType(RawId),
                                                        At(codec.map, e)),
             !.phase = "setComponent", !.e = e, !.n = @ + 1]
       /\ UNCHANGED engineVars

\* removeComponent<T>(e)
RemoveRaw(e) ==
    LET r == CM_removeComponent(codec.stream, codec.map, RawId, e)
    IN /\ codec.ok /\ codec.n < MaxOps
       /\ codec' = [codec EXCEPT
             !.stream = r.a, !.map = r.m, !.ok = r.ok, !.back = r.ret,
             !.held = IF r.ok THEN @ \ {e} ELSE @,
             !.diagnostics = CA_getComponentDiagnostics(CompType(RawId),
                                                        At(codec.map, e)),
             !.phase = "removeComponent", !.e = e, !.n = @ + 1]
       /\ UNCHANGED engineVars

NextUnregistered ==
    \/ \E e \in EntityIds : AddRaw(e)
    \/ \E e \in EntityIds : GetRaw(e)
    \/ \E e \in EntityIds : SetRaw(e)
    \/ \E e \in EntityIds : RemoveRaw(e)

SpecUnregistered == InitUnregistered /\ [][NextUnregistered]_vars

(***************************************************************************)
(* SystemManager::bitmapMatches, both overloads, applied to a requirement  *)
(* set, a bitmap and a bit.  codec holds the three and the two results.    *)
(***************************************************************************)
InitMatch ==
    /\ EngineInit
    /\ \E requirement \in SeqsUpTo(CompIds, MaxReq), bit \in CompIds :
          \E bitmap \in [1..(ComponentIdCount + 1) -> BOOLEAN] :
             codec = [tn |-> "match", requirement |-> requirement,
                      bitmap |-> bitmap, bit |-> bit, phase |-> "start",
                      matches |-> FALSE, matchesBit |-> FALSE]

Match ==
    /\ codec.phase = "start"
    /\ codec' = [codec EXCEPT
          !.matches = bitmapMatchesLoop(codec.requirement, codec.bitmap),
          !.matchesBit = bitmapMatchesBitLoop(codec.requirement, codec.bitmap,
                                              codec.bit),
          !.phase = "matched"]
    /\ UNCHANGED engineVars

SpecMatch == InitMatch /\ [][Match]_vars

(***************************************************************************)
(* A ComponentManager built when only bool is registered, under            *)
(* createEntity and the registration of further component types            *)
(* (ComponentManager::newId).  codec holds m_componentArrays (arrays),     *)
(* m_indexMaps (maps), the types registered in the order of their ids      *)
(* (types: what spaceBuffer and complexBuffer are filled from; idCount is  *)
(* its length) and the number of entities.                                 *)
(***************************************************************************)
\* ComponentManager::update: [arrays, maps]
RECURSIVE CM_update(_, _, _, _)
CM_update(arrays, maps, types, numberOfEntities) ==
    IF ~(Len(maps) < Len(types)) THEN [arrays |-> arrays, maps |-> maps]
    ELSE CM_update(Append(arrays,
                          NewComponentArray(SizeOfType(types[Len(types)]),
                                            Trivial(types[Len(types)]))),
                   Append(maps, Zeros(numberOfEntities)),
                   types, numberOfEntities)

\* the component types registered late
LateTypes == {TChar, TInt, TStr}

InitLate ==
    /\ EngineInit
    /\ codec = [tn |-> "late", types |-> <<TBool>>,
                arrays |-> <<NewComponentArray(SizeOfType(TBool), Trivial(TBool))>>,
                maps |-> <<Zeros(0)>>, entities |-> 0, phase |-> "start"]

\* ComponentManager::newId<T>
RegisterLate(ty) ==
    /\ Len(codec.types) < 1 + MaxLate
    /\ codec' = [codec EXCEPT !.types = Append(@, ty), !.phase = "newId"]
    /\ UNCHANGED engineVars

\* what ecs::createEntity does to the ComponentManager: update, then addEntity
CreateEntityLate ==
    LET u == CM_update(codec.arrays, codec.maps, codec.types, codec.entities)
    IN /\ codec.entities < MaxCreates
       /\ codec' = [codec EXCEPT !.arrays = u.arrays,
                                 !.maps = CM_addEntity(u.maps),
                                 !.entities = @ + 1,
                                 !.phase = "createEntity"]
       /\ UNCHANGED engineVars

NextLate ==
    \/ \E ty \in LateTypes : RegisterLate(ty)
    \/ CreateEntityLate

SpecLate == InitLate /\ [][NextLate]_vars

(***************************************************************************)
(* Two engines in one process.  SystemManager::idCount, functionIndex and  *)
(* every SystemType<T>::id are static: the engines share them.  The state  *)
(* is kept in codec: first and second are the two engines, only is an      *)
(* engine alone in a process of its own that is given the calls of second, *)
(* declared and declaredOnly are the kinds createSystemFunction returned   *)
(* to second and to only, created the system types each was given, garbage *)
(* what the unassigned priorities of a new engine hold.                    *)
(***************************************************************************)
\* calls made on the first engine before the second one is built
MaxFirst == 2
\* calls made on the second engine
MaxSecond == 3

\* the engine E with the statics as the engine S left them
Shared(E, S) ==
    [E EXCEPT !.systemTypeId = S.systemTypeId, !.functionIndex = S.functionIndex]

\* ecs::ecs() in a process whose statics are those of the engine S:
\* SystemManager(numberOfEntities) builds every store with functionIndex
\* callbacks
BuiltAfter(garbage, S) ==
    [Shared(NewEngine(garbage), S) EXCEPT
        !.m_stores = [i \in 1..SystemIdCount |-> NewSystem(S.functionIndex)]]

\* the values addComponent is called with on the engines
EngineValue(id) == IF id = IntId THEN IntBytes(1) ELSE <<IntBytes(1)>>

\* the instances the callbacks of a run were invoked on, in order
InvocationOrder(log) == [i \in DOMAIN log |-> log[i].instance]

InitEngines ==
    /\ EngineInit
    /\ codec = [tn |-> "engines", phase |-> "first",
                first |-> Engine, second |-> Engine, only |-> Engine,
                created |-> {}, createdFirst |-> {},
                declared |-> <<>>, declaredOnly |-> <<>>,
                order |-> <<>>, orderOnly |-> <<>>,
                garbage |-> m_supplements[1].priority,
                n |-> 0, op |-> "none"]

\* a call on the first engine, r being what it returns and created the system
\* types it was given after the call
OnFirst(r, op, created) ==
    /\ codec.phase = "first"
    /\ ~codec.first.ub
    /\ codec.n < MaxFirst
    /\ codec' = [codec EXCEPT !.first = r.eng, !.n = @ + 1, !.op = op,
                              !.createdFirst = created]
    /\ UNCHANGED engineVars

FirstDeclare ==
    OnFirst(F_createSystemFunction(codec.first), "createSystemFunction",
            codec.createdFirst)

FirstCreateSystem(t, priority) ==
    /\ t \notin codec.createdFirst
    /\ OnFirst(F_createSystem(codec.first, t, priority), "createSystem",
               codec.createdFirst \cup {t})

FirstCreateEntity ==
    /\ codec.first.m_entityCount < MaxCreates
    /\ OnFirst(F_createEntity(codec.first), "createEntity", codec.createdFirst)

FirstAddComponent(e, id) ==
    /\ Contains(codec.first, e)
    /\ ~At(At(codec.first.m_componentBitmaps, e), id)
    /\ OnFirst(F_addComponent(codec.first, e, id, EngineValue(id)), "addComponent",
               codec.createdFirst)

\* the second engine is built, in the process of the first one; the engine
\* alone in its process is built from the statics as they are initialized
BuildSecond ==
    /\ codec.phase = "first"
    /\ ~codec.first.ub
    /\ codec' = [codec EXCEPT
          !.phase = "second",
          !.second = BuiltAfter(codec.garbage, codec.first),
          !.only = NewEngine(codec.garbage),
          !.n = 0, !.op = "ecs"]
    /\ UNCHANGED engineVars

\* the same call on the second engine and on the engine alone in its process,
\* r and s being what it returns and created the system types they were given
\* after the call
OnSecond(r, s, op, created) ==
    /\ codec.phase = "second"
    /\ ~codec.second.ub /\ ~codec.only.ub /\ ~codec.first.ub
    /\ codec.n < MaxSecond
    /\ codec' = [codec EXCEPT
          !.second = r.eng, !.only = s.eng,
          !.first = Shared(codec.first, r.eng),
          !.n = @ + 1, !.op = op,
          !.created = created,
          !.declared = IF op = "createSystemFunction" THEN @ \o r.ret ELSE @,
          !.declaredOnly = IF op = "createSystemFunction" THEN @ \o s.ret ELSE @,
          !.order = IF op = "run" THEN InvocationOrder(r.ret) ELSE @,
          !.orderOnly = IF op = "run" THEN InvocationOrder(s.ret) ELSE @]
    /\ UNCHANGED engineVars

SecondDeclare ==
    OnSecond(F_createSystemFunction(codec.second),
             F_createSystemFunction(codec.only), "createSystemFunction",
             codec.created)

SecondCreateSystem(t, priority) ==
    /\ t \notin codec.created
    /\ OnSecond(F_createSystem(codec.second, t, priority),
                F_createSystem(codec.only, t, priority), "createSystem",
                codec.created \cup {t})

SecondCreateEntity ==
    /\ codec.only.m_entityCount < MaxCreates
    /\ OnSecond(F_createEntity(codec.second), F_createEntity(codec.only),
                "createEntity", codec.created)

SecondAddComponent(e, id) ==
    /\ Contains(codec.only, e)
    /\ ~At(At(codec.only.m_componentBitmaps, e), id)
    /\ OnSecond(F_addComponent(codec.second, e, id, EngineValue(id)),
                F_addComponent(codec.only, e, id, EngineValue(id)), "addComponent",
                codec.created)

\* run(kind) for the k-th kind each engine declared
SecondRun(k) ==
    /\ k \in DOMAIN codec.declared
    /\ OnSecond(F_run(codec.second, codec.declared[k]),
                F_run(codec.only, codec.declaredOnly[k]), "run", codec.created)

\* run(index) on the first engine once the second one is there
FirstRun(index) ==
    /\ codec.phase = "second"
    /\ ~codec.second.ub /\ ~codec.only.ub /\ ~codec.first.ub
    /\ codec.op # "run first"
    /\ codec' = [codec EXCEPT !.first = F_run(codec.first, index).eng,
                              !.op = "run first"]
    /\ UNCHANGED engineVars

NextEngines ==
    \/ FirstDeclare
    \/ \E t \in SysTypes, p \in Priorities : FirstCreateSystem(t, p)
    \/ FirstCreateEntity
    \/ \E e \in EntityIds, id \in UserCompIds : FirstAddComponent(e, id)
    \/ BuildSecond
    \/ SecondDeclare
    \/ \E t \in SysTypes, p \in Priorities : SecondCreateSystem(t, p)
    \/ SecondCreateEntity
    \/ \E e \in EntityIds, id \in UserCompIds : SecondAddComponent(e, id)
    \/ \E k \in 1..MaxSecond : SecondRun(k)
    \/ \E index \in 0..(MaxSecond - 1) : FirstRun(index)

SpecEngines == InitEngines /\ [][NextEngines]_vars

(***************************************************************************)
(* The slot search of SystemManager::createSystem on its own, one          *)
(* iteration of the do-while loop at a time, the outcome of each priority  *)
(* comparison being free.  The state is kept in codec: id, index and total *)
(* are the variables of the code, steps counts the iterations.  index and  *)
(* total are uint32_t: a negative number stands for the value 2^32 above   *)
(* it, which is what the subtraction leaves when it underflows.            *)
(***************************************************************************)
\* the number of systems already placed is at most this
MaxSearchId == 64

\* one iteration that subtracts the whole of buffer when the priority found is
\* greater
SearchStepWhole(id, index, total, greater) ==
    LET buffer == index
        half == index \div 2
    IN IF greater
       THEN total - buffer
       ELSE total + (half + (buffer % 2)) + (IF half = 0 THEN id % 2 ELSE 0)

\* one iteration of the loop: total after it, greater being the outcome of
\* m_supplements[total].priority > priority
SearchStep(id, index, total, greater) ==
    LET buffer == index
        half == index \div 2
    IN IF greater
       THEN total - (half + (buffer % 2))
       ELSE total + (half + (buffer % 2)) + (IF half = 0 THEN id % 2 ELSE 0)

InitSearch ==
    /\ EngineInit
    /\ \E id \in 0..MaxSearchId :
          codec = [tn |-> "search", id |-> id, index |-> id \div 2,
                   total |-> id \div 2, steps |-> 0,
                   phase |-> IF id > 0 THEN "loop" ELSE "done"]

\* one iteration of the do-while loop
Compare(greater) ==
    /\ codec.phase = "loop"
    /\ codec' = [codec EXCEPT
          !.index = codec.index \div 2,
          !.total = SearchStep(codec.id, codec.index, codec.total, greater),
          !.steps = @ + 1,
          !.phase = IF codec.index \div 2 # 0 THEN "loop" ELSE "done"]
    /\ UNCHANGED engineVars

NextSearch == \E greater \in BOOLEAN : Compare(greater)

SpecSearch == InitSearch /\ [][NextSearch]_vars

(***************************************************************************)
(* ComponentArray::overwrite on the pool of one component type.  The state *)
(* is kept in codec: stream is the pool, starts the offsets                *)
(* ComponentArray::addComponent gave to the records, in order; once a      *)
(* record is removed, before is the pool as it was, index the offset       *)
(* overwrite was given, size the length addComponent gave the record,      *)
(* offset what overwrite returned and ok whether it stayed inside the      *)
(* pool.                                                                   *)
(***************************************************************************)
\* at most this many records are added to the pool
MaxRecords == 3

InitOverwrite ==
    /\ EngineInit
    /\ \E id \in UserCompIds :
          codec = [tn |-> "overwrite", id |-> id,
                   stream |-> NewComponentArray(spaceBuffer(id), complexBuffer(id)),
                   starts |-> <<>>, before |-> <<>>, index |-> 0, size |-> 0,
                   offset |-> 0, ok |-> TRUE, phase |-> "start"]

\* ComponentArray::addComponent with the sentinel for index
AddRecord(v) ==
    LET r == CA_addComponent(CompType(codec.id), codec.stream, Sentinel, v)
    IN /\ codec.phase \in {"start", "added"}
       /\ Len(codec.starts) < MaxRecords
       /\ r.ok
       /\ codec' = [codec EXCEPT !.stream = r.a, !.starts = Append(@, r.index),
                                 !.phase = "added"]
       /\ UNCHANGED engineVars

\* ComponentArray::overwrite(index) for the k-th record
OverwriteRecord(k) ==
    LET index == codec.starts[k]
        r == CA_overwrite(codec.stream, spaceBuffer(codec.id), index)
    IN /\ codec.phase = "added"
       /\ codec' = [codec EXCEPT
             !.stream = r.a, !.before = codec.stream, !.index = index,
             !.size = (IF k < Len(codec.starts) THEN codec.starts[k + 1]
                       ELSE Len(codec.stream)) - index,
             !.offset = r.offset, !.ok = r.ok, !.phase = "overwritten"]
       /\ UNCHANGED engineVars

NextOverwrite ==
    \/ \E v \in CompValues(codec.id) : AddRecord(v)
    \/ \E k \in DOMAIN codec.starts : OverwriteRecord(k)

SpecOverwrite == InitOverwrite /\ [][NextOverwrite]_vars

(***************************************************************************)
(* The claims.                                                             *)
(***************************************************************************)
\* C4: for every supported value type (fixed-width values, text, sequences of
\* fixed-width values, nested sequences of sequences or strings) and every
\* value v, encoding v at a pool offset addresses no byte outside the pool, and
\* decoding the bytes produced yields a value equal to v.
C4_RoundTrip ==
    /\ codec.phase \in {"encoded", "decoded"} => codec.ok
    /\ codec.phase = "decoded" => codec.back = codec.v

\* C4, its case: a sequence of MaxLen strings, the first of MaxLen characters,
\* was encoded behind MaxPad bytes and decoded
C4_Witness ==
    /\ codec.phase = "decoded"
    /\ codec.tn = "vecstr"
    /\ codec.pad = MaxPad
    /\ Len(codec.v) = MaxLen
    /\ Len(codec.v[1]) = MaxLen
    /\ codec.back = codec.v

\* createSystem<T> was called
Created(t) == sysRef[t] # Sentinel

\* e is in the list ecs::entities<T>() returns, for the supplements and the
\* SystemType ids given
Listed(supps, sysId, t, e) ==
    \E i \in DOMAIN At(supps, sysId[t]).entities :
        At(supps, sysId[t]).entities[i] = e

\* every component type createSystem<T, Args...> requires is set in the bitmap
Satisfies(bitmap, t) ==
    \A k \in DOMAIN Requirements(t) : At(bitmap, Requirements(t)[k])

\* ecs::active(e), for the pool and the index map of bool given
IsActive(pool, map, e) ==
    CM_getComponent(pool, map, BoolId, e).v # BoolBytes(FALSE)

\* the entities that have a bitmap
Allocated == 0..(Len(m_componentBitmaps) - 1)

\* C1: for every created system S with requirement set R and every entity e, e
\* is in S's matched list if and only if e is active and every component type
\* of R is set in e's bitmap, after every operation of any interleaving of
\* createEntity, removeEntity, addComponent and removeComponent.
C1_Membership ==
    ~ub =>
        \A t \in SysTypes : Created(t) =>
            \A e \in Allocated :
                Listed(m_supplements, systemTypeId, t, e)
                    <=> /\ IsActive(At(m_componentArrays, BoolId),
                                    At(m_indexMaps, BoolId), e)
                        /\ Satisfies(At(m_componentBitmaps, e), t)

\* C2: run(kind) invokes the callbacks of the created systems in non-increasing
\* priority order, for any sequence of createSystem calls with any priorities.
C2_PriorityOrder ==
    (~ub /\ last.op = "run") =>
        \A i, j \in DOMAIN runLog :
            i < j => At(m_supplements, runLog[i].slot).priority
                        >= At(m_supplements, runLog[j].slot).priority

\* C3: after any sequence of addComponent, removeComponent and setComponent
\* calls, getComponent<T>(e) for every entity e that holds T reads inside the
\* pool and returns the value most recently written to it by addComponent or
\* setComponent.
C3_ReadBack ==
    ~ub =>
        \A e \in EntityIds, id \in UserCompIds :
            Holds(e, id) =>
                /\ ~F_getComponent(Engine, e, id).eng.ub
                /\ F_getComponent(Engine, e, id).ret = written[e][id].v

\* the step is a call of the facade operation op that executed no undefined
\* behaviour
Step(op) == ops' = ops + 1 /\ last'.op = op /\ ~ub'

\* ecs::containsComponent<T>(e) on the index maps given
ContainsIn(maps, e, id) == CM_containsComponent(At(maps, id), e).v

\* C5: createEntity returns the most recently removed id whenever a removed id
\* waits for reuse, and only otherwise allocates a new id, equal to the number
\* of ids allocated so far (one bitmap exists per allocated id, and it is what
\* EntityManager::totalEntityCount reports).
C5_Recycle ==
    [][Step("createEntity") =>
          ret' = IF m_removedEntities # <<>>
                 THEN <<Back(m_removedEntities)>>
                 ELSE IF Len(m_componentBitmaps)
                            = EM_totalEntityCount(m_entityCount, m_removedEntities)
                      THEN <<Len(m_componentBitmaps)>>
                      ELSE <<>>]_vars

\* C5, its case: two ids were allocated and both removed, and createEntity
\* returned the one removed last while the other still waits
C5_Witness ==
    /\ last.op = "createEntity"
    /\ ~ub
    /\ Len(m_componentBitmaps) = 2
    /\ Len(m_removedEntities) = 1
    /\ ret # <<Back(m_removedEntities)>>

\* C6: an entity just returned by createEntity is active and holds no component
\* other than the built-in active component; after addComponent<T>(e, v) on a
\* live entity containsComponent<T>(e) is true, and after removeComponent<T>(e)
\* it is false again.
C6_Presence ==
    ~ub =>
        /\ last.op = "createEntity" =>
              /\ IsActive(At(m_componentArrays, BoolId), At(m_indexMaps, BoolId),
                          ret[1])
              /\ \A id \in UserCompIds : ~ContainsIn(m_indexMaps, ret[1], id)
        /\ (last.op = "addComponent" /\ last.live) =>
              ContainsIn(m_indexMaps, last.e, last.id)
        /\ (last.op = "removeComponent" /\ last.live) =>
              ~ContainsIn(m_indexMaps, last.e, last.id)

\* C7: after removeEntity(e) of a live entity, e holds no component of any
\* type, e is in no system's matched list, and e's id is the one the next
\* createEntity returns.
C7_RemoveEntity ==
    (~ub /\ last.op = "removeEntity" /\ last.live) =>
        /\ \A id \in CompIds : ~ContainsIn(m_indexMaps, last.e, id)
        /\ \A t \in SysTypes :
              Created(t) => ~Listed(m_supplements, systemTypeId, t, last.e)
        /\ m_removedEntities # <<>>
        /\ Back(m_removedEntities) = last.e

\* C8: setActive(e, state) on a live entity changes nothing when active(e)
\* already equals state; otherwise, afterwards active(e) equals state, e is in
\* the matched list of a system whose requirements e's bitmap satisfies exactly
\* if state is true, and the matched list of every other system is unchanged.
C8_SetActive ==
    [][(Step("setActive") /\ last'.live) =>
          IF IsActive(At(m_componentArrays, BoolId), At(m_indexMaps, BoolId),
                      last'.e) = (arg' = BoolBytes(TRUE))
          THEN /\ m_componentArrays' = m_componentArrays
               /\ m_indexMaps' = m_indexMaps
               /\ m_componentBitmaps' = m_componentBitmaps
               /\ m_supplements' = m_supplements
          ELSE /\ IsActive(At(m_componentArrays', BoolId), At(m_indexMaps', BoolId),
                           last'.e) = (arg' = BoolBytes(TRUE))
               /\ \A t \in SysTypes : Created(t) =>
                     IF Satisfies(At(m_componentBitmaps, last'.e), t)
                     THEN Listed(m_supplements', systemTypeId, t, last'.e)
                              = (arg' = BoolBytes(TRUE))
                     ELSE At(m_supplements', systemTypeId[t]).entities
                              = At(m_supplements, systemTypeId[t]).entities]_vars

\* C9: an inactive entity is never matched: from setActive(e, false) until the
\* next setActive(e, true), e is in no system's matched list, whatever
\* addComponent or removeComponent calls on e happen in between.
C9_InactiveUnmatched ==
    ~ub =>
        \A e \in EntityIds :
            (Live(e) /\ written[e][BoolId].v = BoolBytes(FALSE)) =>
                \A t \in SysTypes :
                    Created(t) => ~Listed(m_supplements, systemTypeId, t, e)

\* C10: addComponent<T>(e, v) when e already holds T records DoubleInsert and
\* leaves the engine state as before the call: T's pool and index map (and so
\* the stored value), e's bitmap and every system's matched list are unchanged.
C10_DoubleInsert ==
    [][(Step("addComponent") /\ last'.held) =>
          /\ error' = DoubleInsert
          /\ m_componentArrays' = m_componentArrays
          /\ m_indexMaps' = m_indexMaps
          /\ m_componentBitmaps' = m_componentBitmaps
          /\ \A i \in DOMAIN m_supplements :
                m_supplements'[i].entities = m_supplements[i].entities]_vars

\* the step is a call of the facade operation op, whatever it executed
Called(op) == ops' = ops + 1 /\ last'.op = op

\* C11: getComponent<T>(e) when e does not hold T records Absent and returns
\* the default value without reading outside the pool, for fixed-width and
\* for variable-size types T.
C11_GetAbsent ==
    ~ub =>
        \A e \in EntityIds, id \in UserCompIds :
            (Live(e) /\ ~Holds(e, id)) =>
                /\ ~F_getComponent(Engine, e, id).eng.ub
                /\ F_getComponent(Engine, e, id).eng.error = Absent
                /\ F_getComponent(Engine, e, id).ret = DefaultValue(CompType(id))

\* C12: removeComponent<T>(e) when e does not hold T records Absent and leaves
\* T's pool, T's index map, e's bitmap and every system's matched list
\* unchanged.
C12_RemoveAbsent ==
    [][(Called("removeComponent") /\ last'.live /\ ~last'.held) =>
          /\ ~ub'
          /\ error' = Absent
          /\ m_componentArrays' = m_componentArrays
          /\ m_indexMaps' = m_indexMaps
          /\ m_componentBitmaps' = m_componentBitmaps
          /\ \A i \in DOMAIN m_supplements :
                m_supplements'[i].entities = m_supplements[i].entities]_vars

\* C13: removeEntity(id) with an id that was never created, or that was removed
\* and not yet recycled, records InvalidEntity and changes nothing: the recycle
\* list and the active-entity count are as before the call.
C13_RemoveInvalid ==
    [][(Called("removeEntity") /\ ~last'.live) =>
          /\ ~ub'
          /\ error' = InvalidEntity
          /\ m_removedEntities' = m_removedEntities
          /\ m_entityCount' = m_entityCount]_vars

\* the id was never returned by createEntity
NeverCreated(e) == ~Has(m_componentBitmaps, e)

\* the id was removed and has not been returned by createEntity since
Removed(e) ==
    /\ ~Live(e)
    /\ \E i \in DOMAIN m_removedEntities : m_removedEntities[i] = e

\* the call recorded InvalidEntity and did nothing else
Rejected(r) == r.eng = [Engine EXCEPT !.error = InvalidEntity]

\* C14: every facade operation that takes an entity (setActive, addComponent,
\* getComponent, setComponent, containsComponent, removeComponent, and
\* shareComponent for either of its two entity arguments), called with an id
\* that was never created, records InvalidEntity, leaves all engine state
\* unchanged and accesses no index-map entry outside the map.
C14_NeverCreated ==
    ~ub =>
        \A e \in EntityIds, id \in UserCompIds :
            NeverCreated(e) =>
                /\ \A b \in BOOLEAN : Rejected(F_setActive(Engine, e, b))
                /\ \A v \in CompValues(id) : Rejected(F_addComponent(Engine, e, id, v))
                /\ Rejected(F_getComponent(Engine, e, id))
                /\ Rejected(F_removeComponent(Engine, e, id))
                /\ \A s \in EntityIds : Rejected(F_shareComponent(Engine, e, s, id))
                /\ \A s \in EntityIds :
                      Live(s) => Rejected(F_shareComponent(Engine, s, e, id))
                /\ Rejected(F_containsComponent(Engine, e, id))
                /\ \A v \in CompValues(id) : Rejected(F_setComponent(Engine, e, id, v))

\* C15: addComponent, setComponent, removeComponent, shareComponent and
\* setActive called with an id that has been removed and not yet recycled
\* record InvalidEntity and leave the state unchanged: no component becomes
\* attached to the removed id and it enters no matched list.
C15_RemovedId ==
    [][(/\ ops' = ops + 1
        /\ last'.op \in {"addComponent", "setComponent", "removeComponent",
                         "shareComponent", "setActive"}
        /\ Removed(last'.e)) =>
          /\ ~ub'
          /\ error' = InvalidEntity
          /\ m_componentArrays' = m_componentArrays
          /\ m_indexMaps' = m_indexMaps
          /\ m_componentBitmaps' = m_componentBitmaps
          /\ m_supplements' = m_supplements]_vars

\* C16: run(kindId) with a kindId that createSystemFunction never returned (it
\* has returned 0 .. functionIndex - 1) records UnknownFunctionKind and invokes
\* no system callback.
C16_UnknownKind ==
    [][(Called("run") /\ ~(arg'[1] < functionIndex)) =>
          /\ ~ub'
          /\ error' = UnknownFunctionKind
          /\ runLog' = <<>>
          /\ m_stores' = m_stores]_vars

\* C16, its case: a kind is declared and a system with a callback of that kind
\* is registered, and run was called with the first undeclared kind
C16_Witness ==
    /\ last.op = "run"
    /\ ~ub
    /\ functionIndex > 0
    /\ arg = IntBytes(functionIndex)
    /\ \E i \in DOMAIN m_stores :
          /\ m_stores[i].initialized
          /\ \E k \in DOMAIN m_stores[i].functions : m_stores[i].functions[k] # "noop"
    /\ error = UnknownFunctionKind
    /\ runLog = <<>>

\* C17: getError returns the code the most recent failing call recorded and
\* resets it: right after a second addComponent of a held type it returns
\* DoubleInsert, after removeEntity of a never-created id InvalidEntity, after
\* run of an undeclared kind UnknownFunctionKind, and a second getError with no
\* call in between returns 0.
C17_GetError ==
    [][Called("getError") =>
          /\ ~ub'
          /\ error' = NoError
          /\ (last.op = "getError") => ret' = <<NoError>>
          /\ (last.op = "addComponent" /\ last.held) => ret' = <<DoubleInsert>>
          /\ (last.op = "removeEntity" /\ NeverCreated(last.e)) =>
                ret' = <<InvalidEntity>>
          /\ (last.op = "run" /\ ~(arg[1] < functionIndex)) =>
                ret' = <<UnknownFunctionKind>>]_vars

\* C17, its case: getError has returned the DoubleInsert of the call before it
\* and the code is reset
C17_Witness ==
    /\ last.op = "getError"
    /\ ~ub
    /\ ret = <<DoubleInsert>>
    /\ error = NoError

\* every createSystem call so far was for a type of its own
DistinctTypes ==
    \A i, j \in DOMAIN createdSystems :
        i # j => createdSystems[i].type # createdSystems[j].type

\* the first position of the callbacks of the system of type t in the log of
\* the last run, 0 when the run did not invoke it
RunPosition(t) ==
    IF \E a \in DOMAIN runLog : runLog[a].instance = t
    THEN CHOOSE a \in DOMAIN runLog :
            /\ runLog[a].instance = t
            /\ \A b \in DOMAIN runLog : runLog[b].instance = t => a <= b
    ELSE 0

\* C18: after a run of a declared kind, of two systems created with equal
\* priority (each type created once) the one created first is invoked first,
\* whatever systems of other priorities were created before or between them.
C18_EqualPriorityOrder ==
    (~ub /\ last.op = "run" /\ arg[1] < functionIndex /\ DistinctTypes) =>
        \A i, j \in DOMAIN createdSystems :
            (i < j /\ createdSystems[i].priority = createdSystems[j].priority) =>
                /\ RunPosition(createdSystems[i].type) > 0
                /\ RunPosition(createdSystems[i].type)
                       < RunPosition(createdSystems[j].type)

\* createSystem<T> was called before for the type of the call just recorded
Recreated ==
    /\ Called("createSystem")
    /\ \E i \in DOMAIN createdSystems :
          createdSystems[i].type = createdSystems'[Len(createdSystems')].type

\* the type the createSystem call just recorded was made for
RecreatedType == createdSystems'[Len(createdSystems')].type

\* no entity is listed twice in the matched list
NoDuplicates(entities) ==
    \A a, b \in DOMAIN entities : a # b => entities[a] # entities[b]

\* C19: createSystem<T> for a type T that was created before leaves the order
\* of the systems, T's requirement set and T's matched list as they were, and
\* the matched list lists no entity twice.
C19_Recreate ==
    [][(Recreated /\ ~ub) =>
          /\ ~ub'
          /\ [i \in DOMAIN m_supplements' |-> m_supplements'[i].index]
                = [i \in DOMAIN m_supplements |-> m_supplements[i].index]
          /\ systemTypeId'[RecreatedType] = systemTypeId[RecreatedType]
          /\ At(m_supplements', systemTypeId'[RecreatedType]).requirement
                = At(m_supplements, systemTypeId[RecreatedType]).requirement
          /\ At(m_supplements', systemTypeId'[RecreatedType]).entities
                = At(m_supplements, systemTypeId[RecreatedType]).entities
          /\ NoDuplicates(
                At(m_supplements', systemTypeId'[RecreatedType]).entities)]_vars

\* SystemType<T>::id names the slot that holds the system of type t: its
\* supplement points back at t's id and keeps t's requirement set (what
\* entities<T>() reads), and its store is initialised with t's instance
OwnSlot(t) ==
    LET slot == systemTypeId[t]
    IN /\ Has(m_supplements, slot)
       /\ At(m_supplements, slot).index = t
       /\ At(m_supplements, slot).requirement
             = AddRequirements(<<>>, Requirements(t), 1)
       /\ At(m_stores, slot).initialized
       /\ At(m_stores, slot).instance = t

\* C20: after createSystem calls for distinct types every call has completed,
\* the id of every created type names the slot with the type's own requirement
\* set, matched list and instance, and a run invokes every callback that was
\* set on the system of a type with the instance of that type.
C20_TypeToSlot ==
    DistinctTypes =>
        /\ ~ub
        /\ \A i \in DOMAIN createdSystems : OwnSlot(createdSystems[i].type)
        /\ (last.op = "run") =>
              \A a \in DOMAIN runLog :
                  runLog[a].fn \in {"noop", runLog[a].instance}

\* C21: after every completed call, for every live entity and every component
\* type, the entity's entry in the type's index map is the sentinel exactly
\* when the entity's bitmap bit of the type is false.
C21_SentinelIffBit ==
    ~ub =>
        \A e \in EntityIds, id \in CompIds :
            Live(e) =>
                ((At(At(m_indexMaps, id), e) = Sentinel)
                    <=> ~At(At(m_componentBitmaps, e), id))

\* C22: after every createEntity and removeEntity, with or without recycling,
\* the index map of every component pool is as long as numberOfEntities(), the
\* number of live and removed ids.
C22_IndexMapLength ==
    (~ub /\ last.op \in {"createEntity", "removeEntity"}) =>
        \A id \in CompIds :
            Len(At(m_indexMaps, id))
                = EM_totalEntityCount(m_entityCount, m_removedEntities)

\* C25: setActive<T>(e, newState) on a live entity that holds T makes
\* active<T>(e) return newState, for true as well as false; on a live entity
\* that does not hold T it changes nothing.
C25_SetActiveOf ==
    [][\A e \in EntityIds, id \in UserCompIds :
          (Called("setActive<T>") /\ last'.live /\ last'.e = e /\ last'.id = id) =>
              /\ ~ub'
              /\ last'.held =>
                    F_activeOf(Engine, e, id).ret' = <<arg' = BoolBytes(TRUE)>>
              /\ ~last'.held =>
                    /\ m_componentBitmaps' = m_componentBitmaps
                    /\ m_indexMaps' = m_indexMaps
                    /\ m_componentArrays' = m_componentArrays
                    /\ m_supplements' = m_supplements
                    /\ error' = error]_vars

\* C29: setComponent<T>(e, v) on a live entity does not change which other entities hold T:
\* containsComponent<T> of every other created entity is the same before and
\* after the call, and an index-map entry that was the sentinel before the call
\* is the sentinel after it.
C29_SetKeepsHolders ==
    [][\A e \in EntityIds, id \in UserCompIds :
          (Called("setComponent") /\ last'.live /\ last'.e = e /\ last'.id = id) =>
              /\ ~ub'
              /\ \A o \in EntityIds \ {e} :
                    ~NeverCreated(o) =>
                        /\ F_containsComponent(Engine, o, id).ret'
                              = F_containsComponent(Engine, o, id).ret
                        /\ (At(At(m_indexMaps, id), o) = Sentinel)
                              => (At(At(m_indexMaps', id), o) = Sentinel)]_vars

\* C30: setComponent<T>(e, v) on an entity that holds T, with a value whose
\* encoded length is that of the value stored (also when the value stored was
\* written by addComponent), leaves the size of T's pool and every index-map
\* entry of T as they were.
C30_SameLengthNoShift ==
    [][\A id \in UserCompIds :
          (/\ Called("setComponent")
           /\ last'.id = id
           /\ last'.held
           /\ Length(CompType(id), arg')
                 = Length(CompType(id), written[last'.e][id].v)) =>
              /\ ~ub'
              /\ Len(At(m_componentArrays', id)) = Len(At(m_componentArrays, id))
              /\ At(m_indexMaps', id) = At(m_indexMaps, id)]_vars

\* the component type is in the requirement set of createSystem<T, Args...>
Requires(t, id) == \E k \in DOMAIN Requirements(t) : Requirements(t)[k] = id

\* C28: removeComponent<T>(e) on a live, active entity e that holds T takes e
\* off the matched list of every created system that requires T; a created
\* system that does not require T lists e after the call exactly if it listed e
\* before; and a system still listing e requires only types e still holds.
C28_RemoveUnmatches ==
    [][\A e \in EntityIds, id \in UserCompIds :
          (/\ Called("removeComponent")
           /\ last'.e = e /\ last'.id = id /\ last'.held
           /\ written[e][BoolId].v = BoolBytes(TRUE)) =>
              /\ ~ub'
              /\ \A t \in SysTypes : Created(t) =>
                    /\ Requires(t, id) =>
                          ~Listed(m_supplements', systemTypeId', t, e)
                    /\ ~Requires(t, id) =>
                          (Listed(m_supplements', systemTypeId', t, e)
                              <=> Listed(m_supplements, systemTypeId, t, e))
                    /\ Listed(m_supplements', systemTypeId', t, e) =>
                          \A k \in DOMAIN Requirements(t) :
                              written'[e][Requirements(t)[k]].set]_vars

\* the engine after addComponent<std::vector<int>>(e, vn), and the engine after
\* the setComponent of e to v1 and the setComponent of e to vm that follow it
ShrinkRegrow(e, vn, v1, vm) ==
    LET stored == F_addComponent(Engine, e, VecId, vn).eng
        shrunk == F_setComponent(stored, e, VecId, v1).eng
        regrown == F_setComponent(shrunk, e, VecId, vm).eng
    IN [stored |-> stored, regrown |-> regrown]

\* the sequences of a given length the calls are made with
VecValues(n) == {v \in CompValues(VecId) : Len(v) = n}

\* C23: from any state, for a live entity e that was given no std::vector<int>,
\* storing a sequence of length MaxLen for e, overwriting it with one of length
\* 1 and then with one of length MaxLen again leaves the pool at the size it
\* had after the store, up to one length prefix, and every other entity reads
\* the same std::vector<int> as after the store.
C23_ShrinkRegrow ==
    ~ub =>
        \A e \in EntityIds : (Live(e) /\ ~Holds(e, VecId)) =>
            \A vn, vm \in VecValues(MaxLen), v1 \in VecValues(1) :
                LET s == ShrinkRegrow(e, vn, v1, vm)
                IN /\ ~s.regrown.ub
                   /\ Len(At(s.regrown.m_componentArrays, VecId))
                         - Len(At(s.stored.m_componentArrays, VecId))
                            \in {0, SizeOfSizeT}
                   /\ \A o \in EntityIds \ {e} : Live(o) =>
                         F_getComponent(s.regrown, o, VecId).ret
                             = F_getComponent(s.stored, o, VecId).ret

\* what getComponent<T>(o) returns after setComponent<T>(e, v)
ReadAfterSet(e, o, id, v) ==
    F_getComponent(F_setComponent(Engine, e, id, v).eng, o, id).ret

\* C24: after shareComponent<T>(e, donor) on a live entity e with a donor that
\* holds T, e's index-map entry is the donor's, getComponent<T> returns the
\* same for both, a setComponent<T> through either of them is read back through
\* the other, and T's pool has not grown.
C24_Share ==
    [][\A e, donor \in EntityIds, id \in UserCompIds :
          (/\ Called("shareComponent")
           /\ last'.e = e /\ last'.id = id /\ arg' = <<donor>>
           /\ last'.live
           /\ Holds(donor, id)) =>
              /\ ~ub'
              /\ error' = error
              /\ At(At(m_indexMaps', id), e) = At(At(m_indexMaps', id), donor)
              /\ At(At(m_indexMaps', id), e) # Sentinel
              /\ F_getComponent(Engine, e, id).ret'
                    = F_getComponent(Engine, donor, id).ret'
              /\ F_getComponent(Engine, donor, id).ret' = written[donor][id].v
              /\ \A v \in CompValues(id) :
                    /\ ReadAfterSet(e, donor, id, v)' = v
                    /\ ReadAfterSet(donor, e, id, v)' = v
              /\ Len(At(m_componentArrays', id)) <= Len(At(m_componentArrays, id))]_vars

\* the system types createSystem was called for
CreatedTypes == {createdSystems[i].type : i \in DOMAIN createdSystems}

\* how many callbacks of the log were invoked on the system of type t
Invocations(log, t) == Cardinality({a \in DOMAIN log : log[a].instance = t})

C27_Unregistered ==
    [][/\ (codec'.phase = "addComponent" /\ codec'.n = codec.n + 1
              /\ codec'.e \notin codec.held) =>
             /\ codec'.ok
             /\ codec'.stream = codec.stream \o SizeBytes(0)
             /\ At(codec'.map, codec'.e) = Len(codec.stream)
             /\ codec'.back = DefaultValue(CompType(RawId))
             /\ codec'.diagnostics > 0
             /\ \A o \in EntityIds \ {codec'.e} :
                   At(codec'.map, o) = At(codec.map, o)
       /\ (codec'.phase = "getComponent" /\ codec'.n = codec.n + 1) =>
             /\ codec'.ok
             /\ codec'.back = DefaultValue(CompType(RawId))
             /\ codec'.diagnostics > 0
             /\ codec'.stream = codec.stream
             /\ codec'.map = codec.map]_vars
\* C31: createSystem<T> for a type not created before, called when entities
\* exist, makes T's matched list list exactly the entities that are live, were
\* not deactivated by setActive(e, false) and whose bitmap has every type T
\* requires, each of them once.
C31_CreateSystemFills ==
    [][(Called("createSystem") /\ ~Recreated /\ ~ub') =>
          \A t \in SysTypes :
             (createdSystems'[Len(createdSystems')].type = t) =>
                /\ NoDuplicates(At(m_supplements', systemTypeId'[t]).entities)
                /\ \A e \in Allocated :
                      Listed(m_supplements', systemTypeId', t, e)
                         <=> /\ Live(e)
                             /\ written[e][BoolId].v # BoolBytes(FALSE)
                             /\ Satisfies(At(m_componentBitmaps, e), t)]_vars
\* C32: bitmapMatches(sys, bitmap) is true if and only if the requirement set
\* of sys is not empty and the bitmap has every id of it; the overload with a
\* bit is true if and only if bitmapMatches(sys, bitmap) is and the bit is in
\* the requirement set; both are false for the empty requirement set.  The
\* operators the engine of the model uses give the same results.
C32_BitmapMatches ==
    codec.phase = "matched" =>
        LET ids == {codec.requirement[k] : k \in DOMAIN codec.requirement}
            all == ids # {} /\ \A id \in ids : At(codec.bitmap, id)
            s == [requirement |-> codec.requirement]
        IN /\ codec.matches <=> all
           /\ codec.matchesBit <=> (all /\ codec.bit \in ids)
           /\ codec.matchesBit <=> (codec.matches /\ codec.bit \in ids)
           /\ ids = {} => ~codec.matches /\ ~codec.matchesBit
           /\ codec.matches <=> bitmapMatches(s, codec.bitmap)
           /\ codec.matchesBit <=> bitmapMatchesBit(s, codec.bitmap, codec.bit)

\* C32 happens: a requirement set of MaxReq ids, one of them twice, matches a
\* bitmap, and the overload with a bit outside the set does not
C32_Witness ==
    /\ codec.phase = "matched"
    /\ Len(codec.requirement) = MaxReq
    /\ Cardinality({codec.requirement[k] : k \in DOMAIN codec.requirement}) = 2
    /\ codec.matches
    /\ ~codec.matchesBit
\* C33: when createEntity materializes component types registered after
\* entities were created, the pool of each such type is the empty pool of
\* the type's own size and trivial/variable tag, and its index map has one
\* entry for every entity, the sentinel for each entity that existed before,
\* so that containsComponent is false for them.
C33_LateType ==
    [][(codec'.phase = "createEntity" /\ codec'.entities = codec.entities + 1
           /\ codec.entities > 0) =>
          \A i \in (Len(codec.arrays) + 1)..Len(codec.types) :
             /\ Len(codec'.arrays) >= i /\ Len(codec'.maps) >= i
             /\ codec'.arrays[i] = NewComponentArray(SizeOfType(codec.types[i]),
                                                     Trivial(codec.types[i]))
             /\ Len(codec'.maps[i]) = codec'.entities
             /\ \A e \in 0..(codec.entities - 1) :
                   /\ At(codec'.maps[i], e) = Sentinel
                   /\ ~CM_containsComponent(codec'.maps[i], e).v]_vars
\* the position the supplement of system type t keeps for entity e
PositionOf(supps, sysId, t, e) == At(At(supps, sysId[t]).indexMap, e)

C35_OthersKeepMembership ==
    [][\A e \in EntityIds :
          (/\ \/ Called("removeEntity") /\ last'.live
              \/ Called("removeComponent") /\ last'.held
           /\ last'.e = e) =>
             /\ ~ub'
             /\ \A t \in SysTypes, o \in EntityIds \ {e} :
                   Created(t) =>
                      (Listed(m_supplements', systemTypeId', t, o)
                          <=> Listed(m_supplements, systemTypeId, t, o))]_vars
\* C36: createEntity never returns an id that is live: an id createEntity
\* returned before and removeEntity has not removed since, whatever
\* createEntity and removeEntity calls were made, removeEntity of an id that is
\* already removed included.
C36_FreshId ==
    [][Called("createEntity") =>
          /\ ~ub'
          /\ \A e \in EntityIds : (ret' = <<e>>) => ~Live(e)]_vars

\* how many positions of a matched list hold e
Occurrences(entities, e) ==
    Cardinality({i \in DOMAIN entities : entities[i] = e})

\* C37: shareComponent<T>(e, donor) on a live entity e that holds a T of its
\* own and is listed by a created system that requires T, with a live donor
\* other than e that holds T, makes e's index-map entry the donor's, leaves the
\* donor reading the value written for it, e reading the same value, and e on
\* the list of every created system that requires T exactly once.
C37_ShareWhenHolding ==
    [][\A e, donor \in EntityIds, id \in UserCompIds :
          (/\ Called("shareComponent")
           /\ last'.e = e /\ last'.id = id /\ arg' = <<donor>>
           /\ e # donor
           /\ last'.live /\ last'.held
           /\ Live(donor) /\ Holds(donor, id)
           /\ \E t \in CreatedTypes :
                 Requires(t, id) /\ Listed(m_supplements, systemTypeId, t, e)) =>
              /\ ~ub'
              /\ At(At(m_indexMaps', id), e) = At(At(m_indexMaps', id), donor)
              /\ At(At(m_indexMaps', id), e) # Sentinel
              /\ F_getComponent(Engine, donor, id).ret' = written[donor][id].v
              /\ F_getComponent(Engine, e, id).ret' = written[donor][id].v
              /\ \A t \in CreatedTypes :
                    (Requires(t, id) /\ Listed(m_supplements, systemTypeId, t, e)) =>
                        Occurrences(At(m_supplements', systemTypeId'[t]).entities, e) = 1]_vars

\* the entities the engine E lists for the system type t
MatchedList(E, t) == At(E.m_supplements, E.systemTypeId[t]).entities

\* C38: the calls declareFunctionKind, createSystem, createEntity, addComponent
\* and run made on a second engine, built after a first engine of the same
\* process made calls of its own, end as they end on an engine alone in its
\* process: with defined behaviour, the same matched list for every system
\* type created and the same order of callback invocations; and run on the
\* first engine reads no callback slot its stores do not have, whatever kinds
\* the second engine declared.
C38_Independent ==
    (codec.phase = "second") =>
        /\ ~codec.first.ub
        /\ ~codec.only.ub =>
              /\ ~codec.second.ub
              /\ codec.second.error = codec.only.error
              /\ \A t \in codec.created :
                    MatchedList(codec.second, t) = MatchedList(codec.only, t)
              /\ codec.order = codec.orderOnly

\* C39: in the slot search of createSystem, for every number id of systems
\* already placed and every outcome of the priority comparisons, total is
\* within 0..id before and after every iteration (the unsigned variable neither
\* underflows nor passes id), and the search ends: index falls with every
\* iteration, so that no more than id / 2 + 1 iterations are made.
C39_SlotInRange ==
    (codec.tn = "search") =>
        /\ 0 <= codec.total /\ codec.total <= codec.id
        /\ 0 <= codec.index
        /\ codec.index + codec.steps <= (codec.id \div 2) + 1
        /\ (codec.phase = "loop" /\ codec.steps > 0) => codec.index > 0

\* C39, witness: a search of three iterations or more has ended at slot 0, every
\* priority found being greater
C39_Witness ==
    /\ codec.tn = "search"
    /\ codec.phase = "done"
    /\ codec.steps >= 3
    /\ codec.total = 0
    /\ codec.id % 2 = 1

\* C40: ComponentArray::overwrite(index), index being where addComponent put a
\* record, removes that record and nothing else: it stays inside the pool, it
\* returns the length of the record, which is the component size in a
\* fixed-width pool and the stored length prefix plus the width of the prefix
\* in a variable-size pool, the pool is shorter by that length, the bytes in
\* front of index are as they were and the bytes that followed the record
\* follow index in the same order.
C40_Overwrite ==
    (codec.tn = "overwrite" /\ codec.phase = "overwritten") =>
        LET rest == Len(codec.before) - (codec.index + codec.offset)
        IN /\ codec.ok
           /\ codec.offset = codec.size
           /\ codec.offset = IF complexBuffer(codec.id)
                             THEN spaceBuffer(codec.id)
                             ELSE ReadSize(codec.before, codec.index) + SizeOfSizeT
           /\ Len(codec.stream) = Len(codec.before) - codec.offset
           /\ Bytes(codec.stream, 0, codec.index)
                 = Bytes(codec.before, 0, codec.index)
           /\ Bytes(codec.stream, codec.index, rest)
                 = Bytes(codec.before, codec.index + codec.offset, rest)

\* C40, witness: a record of a variable-size pool was removed that had a record
\* in front of it and a record of another length behind it
C40_Witness ==
    /\ codec.tn = "overwrite"
    /\ codec.phase = "overwritten"
    /\ ~complexBuffer(codec.id)
    /\ Len(codec.starts) = MaxRecords
    /\ codec.index = codec.starts[2]
    /\ Len(codec.before) - codec.starts[3] # codec.size

====
